---------------------------- MODULE Spec2Model ----------------------------
(***************************************************************************)
(* js-to-scratch: the translator of src/translator/index.js as a state     *)
(* machine.  One behaviour is one call of translateToScratch(code): the    *)
(* source is parsed, the feature gate runs, the three analysis passes fill *)
(* the symbol tables, convertNode lowers the AST into the block store and  *)
(* the project envelope is assembled (or an error is thrown).              *)
(***************************************************************************)
EXTENDS Integers, Sequences, FiniteSets, TLC

VARIABLES
  pc,                  \* position inside translateToScratch
  source,              \* the source text: a sequence of statement numbers
  ast,                 \* the Program node acorn.parse returned
  functionDefinitions, \* Map name -> {params, body}
  variables,           \* Set of variable names
  lists,               \* Set of list names
  objectMappings,      \* Map object name -> property names
  recursiveFunctions,  \* Set of names of self-calling functions
  blocks,              \* the block store
  blockIdCounter,      \* the fresh-id counter
  result,              \* what translateToScratch returned
  thrown,              \* what translateToScratch threw
  encodeExpr,          \* the expr handed to convertExpressionToInput
  encoded,             \* the input encoding convertExpressionToInput returned
  canvasCode,          \* the code handed to transformCanvasToScratch: its lines
  transformed,         \* the lines of the string transformCanvasToScratch returned
  cliInput,            \* what a run of the translate command meets: input file, archive, outcomes
  tempDir,             \* let tempDir of the translate action
  existing,            \* the temporary directories that exist on disk
  exitCode             \* the exit code of the process, -1 while it runs

\* the variables of the calls of convertExpressionToInput and of
\* transformCanvasToScratch on their own
cliVars == <<cliInput, tempDir, existing, exitCode>>

auxVars == <<encodeExpr, encoded, canvasCode, transformed, cliVars>>

vars == <<pc, source, ast, functionDefinitions, variables, lists,
          objectMappings, recursiveFunctions, blocks, blockIdCounter,
          result, thrown, encodeExpr, encoded, canvasCode, transformed,
          cliInput, tempDir, existing, exitCode>>

\* null, undefined
Null == "null"
Undefined == "undefined"

\* Longest program, in top-level statements
MaxStmts == 2

\* The depth of nested inlinings at which the call stack of the engine is
\* exhausted (RangeError: Maximum call stack size exceeded); the programs of
\* the model whose inlining ends nest at most two inlinings
MaxInlineDepth == 3

-----------------------------------------------------------------------------
(* ESTree nodes as acorn builds them (only the fields the translator reads). *)

NullNode == [type |-> "null"]
IsNull(node) == node.type = "null"

Loc(line, column) == [line |-> line, column |-> column]

Identifier(name) == [type |-> "Identifier", name |-> name]

\* typeof value is vtype; the value is num, str or bool according to it
NumLit(n) == [type |-> "Literal", vtype |-> "number", num |-> n, str |-> "", bool |-> FALSE]
StrLit(s) == [type |-> "Literal", vtype |-> "string", num |-> 0, str |-> s, bool |-> FALSE]
BoolLit(b) == [type |-> "Literal", vtype |-> "boolean", num |-> 0, str |-> "", bool |-> b]

BinaryExpression(left, operator, right) ==
  [type |-> "BinaryExpression", left |-> left, operator |-> operator, right |-> right]

UnaryExpression(operator, argument) ==
  [type |-> "UnaryExpression", operator |-> operator, argument |-> argument]

UpdateExpression(operator, argument) ==
  [type |-> "UpdateExpression", operator |-> operator, argument |-> argument]

AssignmentExpression(operator, left, right) ==
  [type |-> "AssignmentExpression", operator |-> operator, left |-> left, right |-> right]

MemberExpression(object, property, computed, loc) ==
  [type |-> "MemberExpression", object |-> object, property |-> property,
   computed |-> computed, loc |-> loc]

CallExpression(callee, arguments) ==
  [type |-> "CallExpression", callee |-> callee, arguments |-> arguments]

AwaitExpression(argument, loc) ==
  [type |-> "AwaitExpression", argument |-> argument, loc |-> loc]

ArrayExpression(elements) == [type |-> "ArrayExpression", elements |-> elements]

Property(key, value) == [type |-> "Property", key |-> key, value |-> value]

ObjectExpression(properties) == [type |-> "ObjectExpression", properties |-> properties]

ArrowFunctionExpression(async, params, body, loc) ==
  [type |-> "ArrowFunctionExpression", async |-> async, params |-> params,
   body |-> body, loc |-> loc]

FunctionExpression(async, params, body, loc) ==
  [type |-> "FunctionExpression", async |-> async, params |-> params,
   body |-> body, loc |-> loc]

VariableDeclarator(id, init) == [type |-> "VariableDeclarator", id |-> id, init |-> init]

VariableDeclaration(declarations) ==
  [type |-> "VariableDeclaration", declarations |-> declarations]

FunctionDeclaration(id, async, params, body, loc) ==
  [type |-> "FunctionDeclaration", id |-> id, async |-> async, params |-> params,
   body |-> body, loc |-> loc]

ExpressionStatement(expression) ==
  [type |-> "ExpressionStatement", expression |-> expression]

ReturnStatement(argument) == [type |-> "ReturnStatement", argument |-> argument]

IfStatement(test, consequent) ==
  [type |-> "IfStatement", test |-> test, consequent |-> consequent, alternate |-> NullNode]

WhileStatement(test, body) == [type |-> "WhileStatement", test |-> test, body |-> body]

ForStatement(init, test, update, body) ==
  [type |-> "ForStatement", init |-> init, test |-> test, update |-> update, body |-> body]

BlockStatement(body) == [type |-> "BlockStatement", body |-> body]

Program(body) == [type |-> "Program", body |-> body]

\* let name = init;
Let(name, init) == VariableDeclaration(<<VariableDeclarator(Identifier(name), init)>>)
\* name = right;
Assign(name, right) ==
  ExpressionStatement(AssignmentExpression("=", Identifier(name), right))

\* The child nodes that "for (const key in node)" visits, in key order.
Children(node) ==
  CASE node.type = "Program" -> node.body
    [] node.type = "VariableDeclaration" -> node.declarations
    [] node.type = "VariableDeclarator" -> <<node.id, node.init>>
    [] node.type = "FunctionDeclaration" -> <<node.id>> \o node.params \o <<node.body>>
    [] node.type = "FunctionExpression" -> node.params \o <<node.body>>
    [] node.type = "ArrowFunctionExpression" -> node.params \o <<node.body>>
    [] node.type = "ExpressionStatement" -> <<node.expression>>
    [] node.type = "ReturnStatement" -> <<node.argument>>
    [] node.type = "IfStatement" -> <<node.test, node.consequent, node.alternate>>
    [] node.type = "WhileStatement" -> <<node.test, node.body>>
    [] node.type = "ForStatement" -> <<node.init, node.test, node.update, node.body>>
    [] node.type = "BlockStatement" -> node.body
    [] node.type = "BinaryExpression" -> <<node.left, node.right>>
    [] node.type = "AssignmentExpression" -> <<node.left, node.right>>
    [] node.type = "UnaryExpression" -> <<node.argument>>
    [] node.type = "UpdateExpression" -> <<node.argument>>
    [] node.type = "AwaitExpression" -> <<node.argument>>
    [] node.type = "MemberExpression" -> <<node.object, node.property>>
    [] node.type = "CallExpression" -> <<node.callee>> \o node.arguments
    [] node.type = "ArrayExpression" -> node.elements
    [] node.type = "ObjectExpression" -> node.properties
    [] node.type = "Property" -> <<node.key, node.value>>
    [] OTHER -> <<>>

\* node.name, undefined when the node has no such property
NameOf(node) == IF "name" \in DOMAIN node THEN node.name ELSE Undefined

\* String(value) of a Literal node's value
StringOf(lit) ==
  CASE lit.vtype = "number" -> ToString(lit.num)
    [] lit.vtype = "string" -> lit.str
    [] OTHER -> IF lit.bool THEN "true" ELSE "false"

\* JavaScript evaluates strictly: a table is computed where it is bound
Evaluated(table) == DOMAIN table \subseteq DOMAIN table

\* s.startsWith(prefix)
StartsWith(s, prefix) ==
  Len(s) >= Len(prefix) /\ SubSeq(s, 1, Len(prefix)) = prefix

-----------------------------------------------------------------------------
(* The feature gate. *)

UNSUPPORTED_FEATURES ==
  <<"window.location", "window.alert", "window.confirm", "window.prompt",
    "document.getElementById", "document.querySelector", "console.log",
    "localStorage", "sessionStorage", "fetch", "XMLHttpRequest",
    "setTimeout", "setInterval", "Promise", "async", "await">>

UnsupportedFeatureError(feature, line, column) ==
  [name |-> "UnsupportedFeatureError", feature |-> feature,
   line |-> line, column |-> column]

RECURSIVE getMemberExpressionString(_)
getMemberExpressionString(node) ==
  CASE node.type = "Identifier" -> node.name
    [] node.type = "MemberExpression" ->
         getMemberExpressionString(node.object) \o "." \o
           (IF node.computed THEN "[computed]"
            ELSE IF NameOf(node.property) # Undefined /\ NameOf(node.property) # ""
                 THEN node.property.name ELSE "[unknown]")
    [] OTHER -> "[unknown]"

\* the loop over UNSUPPORTED_FEATURES of one member expression
RECURSIVE MemberErrors(_, _, _)
MemberErrors(memberStr, node, i) ==
  IF i > Len(UNSUPPORTED_FEATURES) THEN <<>>
  ELSE (IF memberStr = UNSUPPORTED_FEATURES[i]
           \/ StartsWith(memberStr, UNSUPPORTED_FEATURES[i] \o ".")
        THEN <<UnsupportedFeatureError(UNSUPPORTED_FEATURES[i],
                                       node.loc.line, node.loc.column)>>
        ELSE <<>>)
       \o MemberErrors(memberStr, node, i + 1)

RECURSIVE traverse(_)
RECURSIVE traverseAll(_, _)
traverseAll(children, i) ==
  IF i > Len(children) THEN <<>>
  ELSE traverse(children[i]) \o traverseAll(children, i + 1)

traverse(node) ==
  IF IsNull(node) THEN <<>>
  ELSE
    (IF node.type = "MemberExpression"
     THEN MemberErrors(getMemberExpressionString(node), node, 1) ELSE <<>>)
    \o (IF node.type \in {"FunctionDeclaration", "FunctionExpression",
                          "ArrowFunctionExpression"} /\ node.async
        THEN <<UnsupportedFeatureError("async", node.loc.line, node.loc.column)>>
        ELSE <<>>)
    \o (IF node.type = "AwaitExpression"
        THEN <<UnsupportedFeatureError("await", node.loc.line, node.loc.column)>>
        ELSE <<>>)
    \o traverseAll(Children(node), 1)

checkUnsupportedFeatures(tree) == traverse(tree)

-----------------------------------------------------------------------------
(* The symbol analyzer: three passes over the AST.  A table is the record  *)
(* [fd, vars, lists, om] of functionDefinitions, variables, lists and      *)
(* objectMappings.                                                         *)

\* Map.set(key, value)
MapSet(map, key, value) == (key :> value) @@ map

IsFunctionInit(init) ==
  init.type \in {"ArrowFunctionExpression", "FunctionExpression"}

\* first forEach over node.declarations: functions, arrays, plain variables
RECURSIVE CollectDeclarators(_, _, _)
CollectDeclarators(decls, i, tab) ==
  IF i > Len(decls) THEN tab
  ELSE LET decl == decls[i]
           t == IF ~IsNull(decl.init) /\ IsFunctionInit(decl.init)
                THEN [tab EXCEPT !.fd = MapSet(@, decl.id.name,
                         [params |-> decl.init.params, body |-> decl.init.body])]
                ELSE IF ~IsNull(decl.init) /\ decl.init.type = "ArrayExpression"
                THEN [tab EXCEPT !.lists = @ \cup {decl.id.name}]
                ELSE [tab EXCEPT !.vars = @ \cup {decl.id.name}]
       IN CollectDeclarators(decls, i + 1, t)

\* prop.key.name || prop.key.value
PropertyKeyName(key) == IF key.type = "Identifier" THEN key.name ELSE key.str

IsFlattenableKey(key) ==
  key.type = "Identifier" \/ (key.type = "Literal" /\ key.vtype = "string")

\* decl.init.properties.forEach: [props, vars] after properties i..
RECURSIVE CollectProperties(_, _, _, _)
CollectProperties(objName, properties, i, acc) ==
  IF i > Len(properties) THEN acc
  ELSE LET prop == properties[i]
       IN IF IsFlattenableKey(prop.key)
          THEN CollectProperties(objName, properties, i + 1,
                 [props |-> Append(acc.props, PropertyKeyName(prop.key)),
                  vars |-> acc.vars \cup {objName \o "_" \o PropertyKeyName(prop.key)}])
          ELSE CollectProperties(objName, properties, i + 1, acc)

\* second forEach over node.declarations: object literals
RECURSIVE CollectObjects(_, _, _)
CollectObjects(decls, i, tab) ==
  IF i > Len(decls) THEN tab
  ELSE LET decl == decls[i]
       IN IF ~IsNull(decl.init) /\ decl.init.type = "ObjectExpression"
          THEN LET got == CollectProperties(decl.id.name, decl.init.properties, 1,
                                            [props |-> <<>>, vars |-> tab.vars])
               IN CollectObjects(decls, i + 1,
                    [tab EXCEPT !.vars = got.vars,
                                !.om = MapSet(@, decl.id.name, got.props)])
          ELSE CollectObjects(decls, i + 1, tab)

ArrayMethods == {"push", "pop", "shift", "unshift", "splice", "slice"}

RECURSIVE collectFunctionsAndVariables(_, _)
RECURSIVE collectFunctionsAndVariablesAll(_, _, _)
collectFunctionsAndVariablesAll(children, i, tab) ==
  IF i > Len(children) THEN tab
  ELSE LET t == collectFunctionsAndVariables(children[i], tab)
       IN CASE Evaluated(t) -> collectFunctionsAndVariablesAll(children, i + 1, t)

collectFunctionsAndVariables(node, tab) ==
  IF IsNull(node) THEN tab
  ELSE
    LET t1 == IF node.type = "VariableDeclaration"
              THEN CollectDeclarators(node.declarations, 1, tab) ELSE tab
        t2 == IF node.type = "FunctionDeclaration"
              THEN [t1 EXCEPT !.fd = MapSet(@, node.id.name,
                       [params |-> node.params, body |-> node.body])]
              ELSE t1
        t3 == IF node.type = "MemberExpression"
                 /\ node.object.type = "Identifier"
                 /\ (node.computed \/ NameOf(node.property) = "length")
              THEN [t2 EXCEPT !.lists = @ \cup {node.object.name}] ELSE t2
        t4 == IF node.type = "CallExpression"
                 /\ node.callee.type = "MemberExpression"
                 /\ node.callee.object.type = "Identifier"
                 /\ NameOf(node.callee.property) \in ArrayMethods
              THEN [t3 EXCEPT !.lists = @ \cup {node.callee.object.name}] ELSE t3
        t5 == IF node.type = "VariableDeclaration"
              THEN CollectObjects(node.declarations, 1, t4) ELSE t4
        t6 == IF node.type = "MemberExpression"
                 /\ node.object.type = "Identifier"
                 /\ ~node.computed
                 /\ node.property.type = "Identifier"
                 /\ node.object.name \in DOMAIN t5.om
              THEN [t5 EXCEPT !.vars = @ \cup
                       {node.object.name \o "_" \o node.property.name}]
              ELSE t5
    IN collectFunctionsAndVariablesAll(Children(node), 1, t6)

RECURSIVE collectVariableReferences(_, _)
RECURSIVE collectVariableReferencesAll(_, _, _)
collectVariableReferencesAll(children, i, vs) ==
  IF i > Len(children) THEN vs
  ELSE LET v == collectVariableReferences(children[i], vs)
       IN CASE v \subseteq v -> collectVariableReferencesAll(children, i + 1, v)

collectVariableReferences(node, vs) ==
  IF IsNull(node) THEN vs
  ELSE collectVariableReferencesAll(Children(node), 1,
         IF node.type = "AssignmentExpression" /\ node.left.type = "Identifier"
         THEN vs \cup {node.left.name} ELSE vs)

\* checkNode of isRecursive: does the subtree call funcName?
RECURSIVE checkNode(_, _)
RECURSIVE checkNodeAny(_, _, _)
checkNodeAny(funcName, children, i) ==
  IF i > Len(children) THEN FALSE
  ELSE checkNode(funcName, children[i]) \/ checkNodeAny(funcName, children, i + 1)

checkNode(funcName, node) ==
  IF IsNull(node) THEN FALSE
  ELSE IF node.type = "CallExpression" /\ node.callee.type = "Identifier"
          /\ node.callee.name = funcName
       THEN TRUE
       ELSE checkNodeAny(funcName, Children(node), 1)

isRecursive(funcName, funcBody) == checkNode(funcName, funcBody)

\* the names of a parameter list
ParamNames(params) == [i \in 1..Len(params) |-> NameOf(params[i])]
SeqRange(seq) == {seq[i] : i \in 1..Len(seq)}

\* every parameter name of every registered function
AllParamNames(fd) == UNION {SeqRange(ParamNames(fd[f].params)) : f \in DOMAIN fd}

\* variables after the third pass removed function and parameter names
CleanedVariables(fd, vs) == (vs \ DOMAIN fd) \ AllParamNames(fd)

-----------------------------------------------------------------------------
(* Block lowering.  The lowering state is the record [blocks, ctr, vars,   *)
(* err, depth]: the block store, blockIdCounter, the variables set          *)
(* (analyzeForLoop adds to it), the message of the error thrown so far      *)
(* (Null if none) and the number of inlinings the call stack holds.         *)

\* input encodings
\* [1, [ptype, text]]
ShadowInput(ptype, text) ==
  [tag |-> 1, kind |-> "shadow", block |-> Null, name |-> "", shadow |-> <<ptype, text>>]
\* [2, id]  (id may be null)
BlockInput(id) ==
  [tag |-> 2, kind |-> "block", block |-> id, name |-> "", shadow |-> <<>>]
\* [2, [12, name, name]]
ReporterInput(name) ==
  [tag |-> 2, kind |-> "variable", block |-> Null, name |-> name, shadow |-> <<>>]
\* [3, [12, name, name], [ptype, text]]
VariableInput(name, ptype, text) ==
  [tag |-> 3, kind |-> "variable", block |-> Null, name |-> name, shadow |-> <<ptype, text>>]
\* an input slot holding null
NullInput ==
  [tag |-> 0, kind |-> "null", block |-> Null, name |-> "", shadow |-> <<>>]

\* a block record as the object literals of convertNode build it
Block(opcode, parent, inputs, fields) ==
  [opcode |-> opcode, next |-> Null, parent |-> parent, inputs |-> inputs,
   fields |-> fields, shadow |-> FALSE, topLevel |-> FALSE, mutation |-> <<>>]

\* `block_${blockIdCounter++}`
generateBlockId(st) == "block_" \o ToString(st.ctr)
Bump(st) == [st EXCEPT !.ctr = @ + 1]

Throw(st, message) == IF st.err = Null THEN [st EXCEPT !.err = message] ELSE st

\* blocks[id] = block
Put(st, id, block) == [st EXCEPT !.blocks = MapSet(@, id, block)]
\* blocks[id].next = next   (a TypeError when blocks[id] is undefined)
SetNext(st, id, next) ==
  IF id \in DOMAIN st.blocks THEN [st EXCEPT !.blocks[id].next = next]
  ELSE Throw(st, "Cannot set properties of undefined")
\* blocks[id].parent = parent
SetParent(st, id, parent) ==
  IF id \in DOMAIN st.blocks THEN [st EXCEPT !.blocks[id].parent = parent]
  ELSE Throw(st, "Cannot set properties of undefined")
\* blocks[id].topLevel = flag
SetTopLevel(st, id, flag) ==
  IF id \in DOMAIN st.blocks THEN [st EXCEPT !.blocks[id].topLevel = flag]
  ELSE Throw(st, "Cannot set properties of undefined")
\* blocks[id].inputs.SUBSTACK = input
SetSubstack(st, id, input) ==
  IF id \in DOMAIN st.blocks THEN [st EXCEPT !.blocks[id].inputs.SUBSTACK = input]
  ELSE Throw(st, "Cannot set properties of undefined")

\* the last block of the next chain that starts at id
RECURSIVE LastOfChain(_, _)
LastOfChain(blks, id) ==
  IF id \in DOMAIN blks /\ blks[id].next # Null
  THEN LastOfChain(blks, blks[id].next) ELSE id

\* JSON.stringify of an array of strings
RECURSIVE JsonItems(_, _)
JsonItems(names, i) ==
  IF i > Len(names) THEN ""
  ELSE (IF i > 1 THEN "," ELSE "") \o "\"" \o names[i] \o "\"" \o JsonItems(names, i + 1)
JSONstringify(names) == "[" \o JsonItems(names, 1) \o "]"

\* the opcode, or "throw" where the code throws
getBinaryOperatorOpcode(operator) ==
  CASE operator = "+" -> "operator_add"
    [] operator = "-" -> "operator_subtract"
    [] operator = "*" -> "operator_multiply"
    [] operator = "/" -> "operator_divide"
    [] operator = "<" -> "operator_lt"
    [] operator = ">" -> "operator_gt"
    [] operator \in {"==", "==="} -> "operator_equals"
    [] OTHER -> "throw"

negatedOp ==
  [op \in {"<", ">", "<=", ">=", "==", "===", "!=", "!=="} |->
     CASE op = "<" -> ">="
       [] op = ">" -> "<="
       [] op = "<=" -> ">"
       [] op = ">=" -> "<"
       [] op = "==" -> "!="
       [] op = "===" -> "!=="
       [] op = "!=" -> "=="
       [] op = "!==" -> "==="]

\* negateExpression with '<' negated to '>' instead of '>='
negateExpressionStrict(expr) ==
  IF IsNull(expr) THEN expr
  ELSE IF expr.type = "BinaryExpression" /\ expr.operator \in DOMAIN negatedOp
       THEN [expr EXCEPT !.operator = IF expr.operator = "<" THEN ">"
                                      ELSE negatedOp[expr.operator]]
       ELSE UnaryExpression("!", expr)

negateExpression(expr) ==
  IF IsNull(expr) THEN expr
  ELSE IF expr.type = "BinaryExpression" /\ expr.operator \in DOMAIN negatedOp
       THEN [expr EXCEPT !.operator = negatedOp[expr.operator]]
       ELSE UnaryExpression("!", expr)

\* substitute of substituteParameters: parameters replaced by arguments
RECURSIVE substitute(_, _)
substituteEach(nodes, paramMap) ==
  [i \in 1..Len(nodes) |-> substitute(nodes[i], paramMap)]

substitute(node, paramMap) ==
  IF IsNull(node) THEN node
  ELSE IF node.type = "Identifier" /\ node.name \in DOMAIN paramMap
       THEN paramMap[node.name]
  ELSE
    CASE node.type \in {"BinaryExpression", "AssignmentExpression"} ->
           [node EXCEPT !.left = substitute(@, paramMap),
                        !.right = substitute(@, paramMap)]
      [] node.type \in {"UnaryExpression", "UpdateExpression", "AwaitExpression",
                        "ReturnStatement"} ->
           [node EXCEPT !.argument = substitute(@, paramMap)]
      [] node.type = "MemberExpression" ->
           [node EXCEPT !.object = substitute(@, paramMap),
                        !.property = substitute(@, paramMap)]
      [] node.type = "CallExpression" ->
           [node EXCEPT !.callee = substitute(@, paramMap),
                        !.arguments = substituteEach(@, paramMap)]
      [] node.type = "ArrayExpression" ->
           [node EXCEPT !.elements = substituteEach(@, paramMap)]
      [] node.type = "ObjectExpression" ->
           [node EXCEPT !.properties = substituteEach(@, paramMap)]
      [] node.type = "Property" ->
           [node EXCEPT !.key = substitute(@, paramMap),
                        !.value = substitute(@, paramMap)]
      [] node.type \in {"ArrowFunctionExpression", "FunctionExpression"} ->
           [node EXCEPT !.params = substituteEach(@, paramMap),
                        !.body = substitute(@, paramMap)]
      [] OTHER -> node

substituteParameters(expr, paramMap) == substitute(expr, paramMap)

\* BuildParamMap with every parameter bound to the first argument
BuildParamMapFirst(params, arguments) ==
  [name \in SeqRange(ParamNames(params)) |->
     IF Len(arguments) > 0 THEN arguments[1] ELSE NumLit(0)]

\* paramMap of the inlining: parameter i -> argument i, or the literal 0
BuildParamMap(params, arguments) ==
  [name \in SeqRange(ParamNames(params)) |->
     LET index == CHOOSE i \in 1..Len(params) :
                    /\ NameOf(params[i]) = name
                    /\ \A j \in (i + 1)..Len(params) : NameOf(params[j]) # name
     IN IF index <= Len(arguments) THEN arguments[index] ELSE NumLit(0)]

\* bodyExpr.body.find(stmt => stmt.type === 'ReturnStatement')
RECURSIVE FindReturn(_, _)
FindReturn(stmts, i) ==
  IF i > Len(stmts) THEN NullNode
  ELSE IF stmts[i].type = "ReturnStatement" THEN stmts[i]
  ELSE FindReturn(stmts, i + 1)

RECURSIVE convertExpressionToInput(_, _, _)
RECURSIVE convertNode(_, _, _)

\* inputs[paramId] = convertExpressionToInput(...) of a procedures_call
CallInput(acc, paramId, r) ==
  [inputs |-> MapSet(acc.inputs, paramId, r.input), st |-> r.st]

\* inputs of a procedures_call: paramIds.forEach, from parameter i on
RECURSIVE CallInputs(_, _, _, _, _)
CallInputs(paramIds, arguments, callBlockId, i, acc) ==
  IF i > Len(paramIds) THEN acc
  ELSE IF i <= Len(arguments)
       THEN CallInputs(paramIds, arguments, callBlockId, i + 1,
              CallInput(acc, paramIds[i],
                convertExpressionToInput(arguments[i], callBlockId, acc.st)))
       ELSE CallInputs(paramIds, arguments, callBlockId, i + 1,
                 [inputs |-> MapSet(acc.inputs, paramIds[i], ShadowInput(4, "0")),
                  st |-> acc.st])

\* the data_itemoflist block, r the converted index
ItemOfList(objName, itemBlockId, parentBlockId, r) ==
  [input |-> BlockInput(itemBlockId),
   st |-> Put(r.st, itemBlockId,
            Block("data_itemoflist", parentBlockId, [INDEX |-> r.input],
                  [LIST |-> <<objName, objName>>]))]

\* case 'MemberExpression' of convertExpressionToInput
convertMemberExpression(expr, parentBlockId, st) ==
  LET objName == NameOf(expr.object)
      propName ==
        IF ~expr.computed /\ expr.property.type = "Identifier"
        THEN expr.property.name
        ELSE IF expr.computed /\ expr.property.type = "Literal"
                /\ expr.property.vtype = "string"
             THEN expr.property.str
             ELSE ""
  IN
  IF expr.object.type # "Identifier" THEN [input |-> ShadowInput(10, "0"), st |-> st]
  ELSE IF objName \in lists /\ ~expr.computed /\ NameOf(expr.property) = "length"
  THEN LET lengthBlockId == generateBlockId(st)
       IN [input |-> BlockInput(lengthBlockId),
           st |-> Put(Bump(st), lengthBlockId,
                    Block("data_lengthoflist", parentBlockId, <<>>,
                          [LIST |-> <<objName, objName>>]))]
  ELSE IF objName \in lists /\ expr.computed
  THEN ItemOfList(objName, generateBlockId(st), parentBlockId,
         convertExpressionToInput(expr.property, generateBlockId(st), Bump(st)))
  ELSE IF objName \in DOMAIN objectMappings /\ propName # ""
  THEN [input |-> VariableInput(objName \o "_" \o propName, 10, ""), st |-> st]
  ELSE [input |-> ShadowInput(10, "0"), st |-> st]

\* the procedures_call block, got the converted arguments
ProcedureCall(funcName, paramIds, callBlockId, parentBlockId, got) ==
  [input |-> BlockInput(callBlockId),
   st |-> Put(got.st, callBlockId,
            [Block("procedures_call", parentBlockId, got.inputs, <<>>)
               EXCEPT !.mutation =
                 [tagName |-> "mutation", proccode |-> funcName,
                  argumentids |-> JSONstringify(paramIds),
                  warp |-> "false"]])]

\* the return of an inlining: its frames leave the call stack
InlineReturn(depth, r) == [r EXCEPT !.st.depth = depth]

\* return convertExpressionToInput(inlinedBody, parentBlockId): one more
\* inlining on the call stack, which overflows at MaxInlineDepth
InlineBody(inlinedBody, parentBlockId, st) ==
  IF st.depth >= MaxInlineDepth
  THEN [input |-> NullInput, st |-> Throw(st, "Maximum call stack size exceeded")]
  ELSE InlineReturn(st.depth,
         convertExpressionToInput(inlinedBody, parentBlockId,
                                  [st EXCEPT !.depth = @ + 1]))

\* case 'CallExpression' of convertExpressionToInput
convertCallExpression(expr, parentBlockId, st) ==
  IF expr.callee.type # "Identifier" THEN [input |-> ShadowInput(10, "0"), st |-> st]
  ELSE
  LET funcName == expr.callee.name IN
  IF funcName \in recursiveFunctions
  THEN LET callBlockId == generateBlockId(st)
           paramIds == IF funcName \in DOMAIN functionDefinitions
                       THEN ParamNames(functionDefinitions[funcName].params)
                       ELSE <<>>
       IN ProcedureCall(funcName, paramIds, callBlockId, parentBlockId,
            CallInputs(paramIds, expr.arguments, callBlockId, 1,
                       [inputs |-> <<>>, st |-> Bump(st)]))
  ELSE IF funcName \in DOMAIN functionDefinitions
  THEN LET funcDef == functionDefinitions[funcName]
           paramMap == BuildParamMap(funcDef.params, expr.arguments)
           returnStmt == IF funcDef.body.type = "BlockStatement"
                         THEN FindReturn(funcDef.body.body, 1) ELSE NullNode
       IN IF funcDef.body.type = "BlockStatement"
          THEN IF ~IsNull(returnStmt) /\ ~IsNull(returnStmt.argument)
               THEN InlineBody(substituteParameters(returnStmt.argument, paramMap),
                               parentBlockId, st)
               ELSE [input |-> ShadowInput(4, "0"), st |-> st]
          ELSE InlineBody(substituteParameters(funcDef.body, paramMap),
                          parentBlockId, st)
  ELSE [input |-> ShadowInput(10, "0"), st |-> st]

\* one operand of a comparison block
ComparisonOperand(operand, isLeft, isGreater, opBlockId, st) ==
  IF operand.type = "Identifier"
  THEN [input |-> IF isLeft /\ isGreater
                  THEN VariableInput(operand.name, 10, "")
                  ELSE ReporterInput(operand.name),
        st |-> st]
  ELSE IF operand.type = "Literal"
  THEN [input |-> ShadowInput(10, StringOf(operand)), st |-> st]
  ELSE convertExpressionToInput(operand, opBlockId, st)

\* one operand of an arithmetic block
ArithmeticOperand(operand, opBlockId, st) ==
  IF operand.type = "Identifier"
  THEN [input |-> VariableInput(operand.name, 4, ""), st |-> st]
  ELSE convertExpressionToInput(operand, opBlockId, st)

\* BinaryBlock without the operator_not wrapping
BinaryBlockUnwrapped(opcode, isComparison, shouldNegate, opBlockId, parentBlockId, l, r) ==
  [input |-> BlockInput(opBlockId),
   st |-> Put(r.st, opBlockId,
            Block(opcode, parentBlockId,
                  IF isComparison
                  THEN [OPERAND1 |-> l.input, OPERAND2 |-> r.input]
                  ELSE [NUM1 |-> l.input, NUM2 |-> r.input],
                  <<>>))]

\* the operator block, and the operator_not that wraps it when shouldNegate;
\* l and r are the converted operands
BinaryBlock(opcode, isComparison, shouldNegate, opBlockId, parentBlockId, l, r) ==
  LET st1 == Put(r.st, opBlockId,
               Block(opcode, parentBlockId,
                     IF isComparison
                     THEN [OPERAND1 |-> l.input, OPERAND2 |-> r.input]
                     ELSE [NUM1 |-> l.input, NUM2 |-> r.input],
                     <<>>))
      notBlockId == generateBlockId(st1)
  IN IF shouldNegate
     THEN [input |-> BlockInput(notBlockId),
           st |-> Put(Bump(st1), notBlockId,
                    Block("operator_not", parentBlockId,
                          [OPERAND |-> BlockInput(opBlockId)], <<>>))]
     ELSE [input |-> BlockInput(opBlockId), st |-> st1]

\* the right operand, converted after the left one
BinaryRight(expr, opcode, isComparison, isGreater, shouldNegate, opBlockId, parentBlockId, l) ==
  BinaryBlock(opcode, isComparison, shouldNegate, opBlockId, parentBlockId, l,
    IF isComparison
    THEN ComparisonOperand(expr.right, FALSE, isGreater, opBlockId, l.st)
    ELSE ArithmeticOperand(expr.right, opBlockId, l.st))

\* case 'BinaryExpression' of convertExpressionToInput
convertBinaryExpression(expr, parentBlockId, st) ==
  LET shouldNegate == expr.operator \in {"!=", "!==", "<=", ">="}
      actualOperator ==
        CASE expr.operator \in {"!=", "!=="} -> "=="
          [] expr.operator = "<=" -> ">"
          [] expr.operator = ">=" -> "<"
          [] OTHER -> expr.operator
      opcode == getBinaryOperatorOpcode(actualOperator)
      opBlockId == generateBlockId(st)
      isComparison == actualOperator \in {"<", ">", "==", "==="}
      isGreater == actualOperator = ">"
  IN
  IF opcode = "throw"
  THEN [input |-> NullInput,
        st |-> Throw(st, "Unsupported binary operator: " \o actualOperator)]
  ELSE IF IsNull(expr.left) \/ IsNull(expr.right)
  THEN [input |-> NullInput,
        st |-> Throw(Bump(st), "Cannot read properties of null (reading 'type')")]
  ELSE BinaryRight(expr, opcode, isComparison, isGreater, shouldNegate, opBlockId,
         parentBlockId,
         IF isComparison
         THEN ComparisonOperand(expr.left, TRUE, isGreater, opBlockId, Bump(st))
         ELSE ArithmeticOperand(expr.left, opBlockId, Bump(st)))

\* the operator_not block of a unary !, r the converted argument
NotBlock(notBlockId, parentBlockId, r) ==
  [input |-> BlockInput(notBlockId),
   st |-> Put(r.st, notBlockId,
            Block("operator_not", parentBlockId, [OPERAND |-> r.input], <<>>))]

convertExpressionToInput(expr, parentBlockId, st) ==
  IF IsNull(expr) THEN [input |-> ShadowInput(10, "0"), st |-> st]
  ELSE
  CASE expr.type = "Literal" ->
         [input |-> IF expr.vtype = "number" THEN ShadowInput(4, ToString(expr.num))
                    ELSE IF expr.vtype = "string" THEN ShadowInput(10, expr.str)
                    ELSE ShadowInput(10, IF expr.bool THEN "true" ELSE ""),
          st |-> st]
    [] expr.type = "Identifier" ->
         [input |-> VariableInput(expr.name, 10, ""), st |-> st]
    [] expr.type = "MemberExpression" -> convertMemberExpression(expr, parentBlockId, st)
    [] expr.type = "CallExpression" -> convertCallExpression(expr, parentBlockId, st)
    [] expr.type = "UnaryExpression" ->
         IF expr.operator = "!"
         THEN NotBlock(generateBlockId(st), parentBlockId,
                convertExpressionToInput(expr.argument, generateBlockId(st), Bump(st)))
         ELSE [input |-> ShadowInput(10, "0"), st |-> st]
    [] expr.type = "BinaryExpression" -> convertBinaryExpression(expr, parentBlockId, st)
    [] OTHER -> [input |-> ShadowInput(10, "0"), st |-> st]

\* analyzeForLoop: [initVar, initValue, condition, update, type] and the
\* variables set with the loop variable added
analyzeForLoop(node, vs) ==
  LET fromDecl == /\ ~IsNull(node.init)
                  /\ node.init.type = "VariableDeclaration"
                  /\ Len(node.init.declarations) > 0
                  /\ node.init.declarations[1].id.type = "Identifier"
      fromExpr == /\ ~IsNull(node.init)
                  /\ node.init.type = "ExpressionStatement"
                  /\ node.init.expression.type = "AssignmentExpression"
                  /\ node.init.expression.left.type = "Identifier"
      initVar == IF fromDecl THEN node.init.declarations[1].id.name
                 ELSE IF fromExpr THEN node.init.expression.left.name
                 ELSE Null
      initValue == IF fromDecl THEN node.init.declarations[1].init
                   ELSE IF fromExpr THEN node.init.expression.right
                   ELSE NullNode
      condition == node.test
      update == node.update
      isSimpleUpdate ==
        \/ /\ update.type = "UpdateExpression"
           /\ update.argument.type = "Identifier"
           /\ update.argument.name = initVar
           /\ update.operator = "++"
        \/ /\ update.type = "AssignmentExpression"
           /\ update.left.type = "Identifier"
           /\ update.left.name = initVar
           /\ update.operator = "+="
           /\ update.right.type = "Literal"
           /\ update.right.vtype = "number"
           /\ update.right.num = 1
      simple == /\ initVar # Null
                /\ ~IsNull(condition)
                /\ ~IsNull(update)
                /\ condition.type = "BinaryExpression"
                /\ condition.left.type = "Identifier"
                /\ condition.left.name = initVar
                /\ isSimpleUpdate
                /\ condition.operator \in {"<", "<="}
  IN [initVar |-> initVar, initValue |-> initValue, condition |-> condition,
      update |-> update, type |-> IF simple THEN "simple" ELSE "complex",
      vars |-> IF initVar # Null THEN vs \cup {initVar} ELSE vs]

\* Program's chaining of one converted statement r; acc = [prev, first, st]
ProgramChain(acc, r) ==
  IF r.id = Null
  THEN [acc EXCEPT !.st = r.st]
  ELSE [prev |-> r.id,
        first |-> IF acc.first = Null THEN r.id ELSE acc.first,
        st |-> IF acc.prev # Null
               THEN SetTopLevel(
                      SetParent(SetNext(r.st, acc.prev, r.id), r.id, acc.prev),
                      r.id, FALSE)
               ELSE r.st]

\* the statements of Program, from statement i on
RECURSIVE ProgramStatements(_, _, _)
ProgramStatements(body, i, acc) ==
  IF i > Len(body) THEN acc
  ELSE ProgramStatements(body, i + 1,
         ProgramChain(acc, convertNode(body[i], Null, acc.st)))

\* the event block before the first statement and the control_stop after the
\* last one, when some statement emitted a block
ProgramEnd(acc) ==
  LET eventBlockId == generateBlockId(acc.st)
      st1 == IF acc.first # Null
             THEN SetTopLevel(
                    SetParent(
                      Put(Bump(acc.st), eventBlockId,
                          [Block("event_whenflagclicked", Null, <<>>, <<>>)
                             EXCEPT !.next = acc.first, !.topLevel = TRUE]),
                      acc.first, eventBlockId),
                    acc.first, FALSE)
             ELSE acc.st
      stopBlockId == generateBlockId(st1)
      st2 == IF acc.prev # Null
             THEN SetNext(
                    Put(Bump(st1), stopBlockId,
                        [Block("control_stop", acc.prev, <<>>,
                               [STOP_OPTION |-> <<"all", Null>>])
                           EXCEPT !.mutation = [tagName |-> "mutation",
                                                hasnext |-> "false"]]),
                    acc.prev, stopBlockId)
             ELSE st1
  IN [id |-> Null, st |-> st2]

\* case 'Program' of convertNode (st is the state after generateBlockId)
convertProgram(node, st) ==
  ProgramEnd(ProgramStatements(node.body, 1,
                               [prev |-> Null, first |-> Null, st |-> st]))

\* a data_setvariableto block, r the converted value
SetVariableTo(name, parentId, blockId, r) ==
  [id |-> blockId,
   st |-> Put(r.st, blockId,
            Block("data_setvariableto", parentId, [VALUE |-> r.input],
                  [VARIABLE |-> <<name, name>>]))]

\* case 'VariableDeclaration' of convertNode
convertVariableDeclaration(node, parentId, blockId, st) ==
  IF Len(node.declarations) = 0 THEN [id |-> blockId, st |-> st]
  ELSE
  LET decl == node.declarations[1] IN
  IF ~IsNull(decl.init) /\ IsFunctionInit(decl.init) THEN [id |-> Null, st |-> st]
  ELSE IF ~IsNull(decl.init) /\ decl.init.type = "ArrayExpression"
  THEN [id |-> Null, st |-> st]
  ELSE SetVariableTo(decl.id.name, parentId, blockId,
         IF ~IsNull(decl.init)
         THEN convertExpressionToInput(decl.init, blockId, st)
         ELSE [input |-> ShadowInput(10, "0"), st |-> st])

\* the chaining of one converted body statement r of a recursive function;
\* acc = [prev, bodyStart, st]
FunctionChain(acc, r) ==
  IF r.id = Null
  THEN [acc EXCEPT !.st = r.st]
  ELSE [prev |-> r.id,
        bodyStart |-> IF acc.prev # Null THEN acc.bodyStart ELSE r.id,
        st |-> IF acc.prev # Null
               THEN SetParent(SetNext(r.st, acc.prev, r.id), r.id, acc.prev)
               ELSE r.st]

\* node.body.body.forEach of a recursive function, from statement i on
RECURSIVE FunctionBody(_, _, _, _)
FunctionBody(body, procBlockId, i, acc) ==
  IF i > Len(body) THEN acc
  ELSE IF body[i].type = "ReturnStatement"
  THEN FunctionBody(body, procBlockId, i + 1,
         IF ~IsNull(body[i].argument)
         THEN [acc EXCEPT !.st =
                 convertExpressionToInput(body[i].argument, procBlockId, acc.st).st]
         ELSE acc)
  ELSE FunctionBody(body, procBlockId, i + 1,
         FunctionChain(acc, convertNode(body[i], procBlockId, acc.st)))

\* the definition linked to the first body block
ProcedureEnd(procBlockId, acc) ==
  [id |-> procBlockId,
   st |-> IF acc.bodyStart # Null
          THEN SetParent(SetNext(acc.st, procBlockId, acc.bodyStart),
                         acc.bodyStart, procBlockId)
          ELSE acc.st]

\* case 'FunctionDeclaration' of convertNode
convertFunctionDeclaration(node, parentId, st) ==
  IF node.id.name \notin recursiveFunctions THEN [id |-> Null, st |-> st]
  ELSE
  LET procBlockId == generateBlockId(st)
      paramIds == ParamNames(node.params)
      st1 == Put(Bump(st), procBlockId,
               [Block("procedures_definition", parentId, <<>>, <<>>)
                  EXCEPT !.topLevel = TRUE,
                         !.mutation = [tagName |-> "mutation",
                                       proccode |-> node.id.name,
                                       argumentids |-> JSONstringify(paramIds),
                                       warp |-> "false"]])
  IN ProcedureEnd(procBlockId,
       IF ~IsNull(node.body) /\ node.body.type = "BlockStatement"
       THEN FunctionBody(node.body.body, procBlockId, 1,
                         [prev |-> Null, bodyStart |-> Null, st |-> st1])
       ELSE [prev |-> Null, bodyStart |-> Null, st |-> st1])

\* the data_replaceitemoflist block, ri and rv the converted index and value
ReplaceItemOfList(listName, parentId, blockId, ri, rv) ==
  [id |-> blockId,
   st |-> Put(rv.st, blockId,
            Block("data_replaceitemoflist", parentId,
                  [INDEX |-> ri.input, ITEM |-> rv.input],
                  [LIST |-> <<listName, listName>>]))]

\* the value of arr[index] = value, converted after the index
ReplaceItemValue(node, parentId, blockId, ri) ==
  ReplaceItemOfList(node.left.object.name, parentId, blockId, ri,
    convertExpressionToInput(node.right, blockId, ri.st))

\* case 'AssignmentExpression' of convertNode
convertAssignmentExpression(node, parentId, blockId, st) ==
  LET left == node.left
      isMember == left.type = "MemberExpression" /\ left.object.type = "Identifier"
      propName ==
        IF ~left.computed /\ left.property.type = "Identifier"
        THEN left.property.name
        ELSE IF left.computed /\ left.property.type = "Literal"
                /\ left.property.vtype = "string"
             THEN left.property.str
             ELSE ""
  IN
  IF node.operator = "=" /\ left.type = "Identifier"
  THEN SetVariableTo(left.name, parentId, blockId,
         convertExpressionToInput(node.right, blockId, st))
  ELSE IF node.operator = "=" /\ isMember /\ left.computed
          /\ left.object.name \in lists
  THEN ReplaceItemValue(node, parentId, blockId,
         convertExpressionToInput(left.property, blockId, st))
  ELSE IF node.operator = "=" /\ isMember
          /\ left.object.name \in DOMAIN objectMappings /\ propName # ""
  THEN SetVariableTo(left.object.name \o "_" \o propName, parentId, blockId,
         convertExpressionToInput(node.right, blockId, st))
  ELSE [id |-> Null, st |-> st]

\* the looks_say block, r the converted message
Say(parentId, blockId, r) ==
  [id |-> blockId,
   st |-> Put(r.st, blockId,
            Block("looks_say", parentId, [MESSAGE |-> r.input], <<>>))]

\* the data_addtolist block, r the converted item
AddToList(listName, parentId, blockId, r) ==
  [id |-> blockId,
   st |-> Put(r.st, blockId,
            Block("data_addtolist", parentId, [ITEM |-> r.input],
                  [LIST |-> <<listName, listName>>]))]

\* case 'CallExpression' of convertNode
convertCallStatement(node, parentId, blockId, st) ==
  LET isMethod == node.callee.type = "MemberExpression"
                  /\ node.callee.object.type = "Identifier"
      listName == node.callee.object.name
      methodName == NameOf(node.callee.property)
  IN
  IF node.callee.type = "Identifier" /\ node.callee.name = "scratch_say"
     /\ Len(node.arguments) > 0
  THEN Say(parentId, blockId,
         convertExpressionToInput(node.arguments[1], blockId, st))
  ELSE IF isMethod /\ listName \in lists /\ methodName = "push"
          /\ Len(node.arguments) > 0
  THEN AddToList(listName, parentId, blockId,
         convertExpressionToInput(node.arguments[1], blockId, st))
  ELSE IF isMethod /\ listName \in lists /\ methodName = "pop"
  THEN LET lengthBlockId == generateBlockId(st)
       IN [id |-> blockId,
           st |-> Put(Put(Bump(st), lengthBlockId,
                          Block("data_lengthoflist", blockId, <<>>,
                                [LIST |-> <<listName, listName>>])),
                      blockId,
                      Block("data_deleteoflist", parentId,
                            [INDEX |-> BlockInput(lengthBlockId)],
                            [LIST |-> <<listName, listName>>]))]
  ELSE [id |-> Null, st |-> st]

\* the control_if / control_repeat_until block: c the converted condition, b
\* the converted body; SUBSTACK is [2, id] when the body node exists, else null
ControlBlock(opcode, body, parentId, blockId, c, b) ==
  [id |-> blockId,
   st |-> Put(b.st, blockId,
            Block(opcode, parentId,
                  [CONDITION |-> c.input,
                   SUBSTACK |-> IF ~IsNull(body) THEN BlockInput(b.id)
                                ELSE NullInput],
                  <<>>))]

\* the body of an if or a while, converted after the condition
ControlBody(opcode, body, parentId, blockId, c) ==
  ControlBlock(opcode, body, parentId, blockId, c,
    IF ~IsNull(body) THEN convertNode(body, blockId, c.st)
    ELSE [id |-> Null, st |-> c.st])

\* case 'IfStatement' of convertNode
convertIfStatement(node, parentId, blockId, st) ==
  ControlBody("control_if", node.consequent, parentId, blockId,
    convertExpressionToInput(node.test, blockId, st))

\* case 'WhileStatement' of convertNode
convertWhileStatement(node, parentId, blockId, st) ==
  ControlBody("control_repeat_until", node.body, parentId, blockId,
    convertExpressionToInput(negateExpression(node.test), blockId, st))

\* the links made after the update statement u of a complex for loop
ComplexForEnd(prevBlockId, whileBlockId, bodyId, lastBodyBlockId, u) ==
  LET st3 == IF u.id # Null /\ lastBodyBlockId # Null
             THEN SetNext(u.st, lastBodyBlockId, u.id) ELSE u.st
      bodyStartId == IF u.id # Null /\ lastBodyBlockId = Null THEN u.id ELSE bodyId
      st4 == IF bodyStartId # Null
             THEN SetSubstack(st3, whileBlockId, BlockInput(bodyStartId)) ELSE st3
  IN [id |-> IF prevBlockId # Null THEN prevBlockId ELSE whileBlockId, st |-> st4]

\* step 4 of convertComplexForLoop: the update, after the converted body b
ComplexForUpdate(node, prevBlockId, whileBlockId, b) ==
  LET lastBodyBlockId == IF b.id # Null THEN LastOfChain(b.st.blocks, b.id) ELSE Null
  IN ComplexForEnd(prevBlockId, whileBlockId, b.id, lastBodyBlockId,
       IF ~IsNull(node.update)
       THEN convertNode(node.update,
                        IF lastBodyBlockId # Null THEN lastBodyBlockId
                        ELSE whileBlockId, b.st)
       ELSE [id |-> Null, st |-> b.st])

\* step 3 of convertComplexForLoop: the while block is stored with the
\* converted condition c, then the body is converted
ComplexForBody(node, parentId, prevBlockId, whileBlockId, c) ==
  LET st1 == Put(c.st, whileBlockId,
               Block("control_repeat_until",
                     IF prevBlockId # Null THEN prevBlockId ELSE parentId,
                     [CONDITION |-> c.input, SUBSTACK |-> NullInput], <<>>))
      st2 == IF prevBlockId # Null THEN SetNext(st1, prevBlockId, whileBlockId)
             ELSE st1
  IN ComplexForUpdate(node, prevBlockId, whileBlockId,
       IF ~IsNull(node.body) THEN convertNode(node.body, whileBlockId, st2)
       ELSE [id |-> Null, st |-> st2])

\* step 2 of convertComplexForLoop: the condition, after the converted init
ComplexForCondition(node, analysis, parentId, init) ==
  ComplexForBody(node, parentId, init.id, generateBlockId(init.st),
    convertExpressionToInput(
      negateExpression(IF ~IsNull(analysis.condition)
                       THEN analysis.condition ELSE BoolLit(TRUE)),
      generateBlockId(init.st), Bump(init.st)))

convertComplexForLoop(node, analysis, parentId, st) ==
  ComplexForCondition(node, analysis, parentId,
    IF ~IsNull(node.init) THEN convertNode(node.init, parentId, st)
    ELSE [id |-> Null, st |-> st])

\* SimpleForEnd with the arguments of the last parent link exchanged
SimpleForEndSwapped(initVar, blockId, initBlockId, bodyStartId, incrementBlockId, incr) ==
  LET st3 == Put(incr.st, incrementBlockId,
               Block("data_setvariableto",
                     IF bodyStartId # Null THEN bodyStartId ELSE blockId,
                     [VALUE |-> incr.input],
                     [VARIABLE |-> <<initVar, initVar>>]))
      st4 == SetNext(st3, initBlockId, blockId)
      lastBodyBlockId == LastOfChain(st4.blocks, bodyStartId)
  IN [id |-> initBlockId,
      st |-> IF bodyStartId # Null
             THEN SetSubstack(
                    SetParent(SetNext(st4, lastBodyBlockId, incrementBlockId),
                              lastBodyBlockId, incrementBlockId),
                    blockId, BlockInput(bodyStartId))
             ELSE SetParent(SetSubstack(st4, blockId, BlockInput(incrementBlockId)),
                            incrementBlockId, blockId)]

\* the increment block stored with the converted value incr, and the links
\* "Link blocks together" makes
SimpleForEnd(initVar, blockId, initBlockId, bodyStartId, incrementBlockId, incr) ==
  LET st3 == Put(incr.st, incrementBlockId,
               Block("data_setvariableto",
                     IF bodyStartId # Null THEN bodyStartId ELSE blockId,
                     [VALUE |-> incr.input],
                     [VARIABLE |-> <<initVar, initVar>>]))
      st4 == SetNext(st3, initBlockId, blockId)
      lastBodyBlockId == LastOfChain(st4.blocks, bodyStartId)
  IN [id |-> initBlockId,
      st |-> IF bodyStartId # Null
             THEN SetSubstack(
                    SetParent(SetNext(st4, lastBodyBlockId, incrementBlockId),
                              incrementBlockId, lastBodyBlockId),
                    blockId, BlockInput(bodyStartId))
             ELSE SetParent(SetSubstack(st4, blockId, BlockInput(incrementBlockId)),
                            incrementBlockId, blockId)]

\* the increment expression, converted after the body b
SimpleForIncrement(forAnalysis, blockId, initBlockId, b) ==
  LET update == forAnalysis.update
      incrementExpr ==
        IF update.type = "UpdateExpression" /\ update.operator = "++"
        THEN BinaryExpression(Identifier(forAnalysis.initVar), "+", NumLit(1))
        ELSE IF update.type = "AssignmentExpression" /\ update.operator = "+="
        THEN BinaryExpression(Identifier(forAnalysis.initVar), "+", update.right)
        ELSE update
  IN SimpleForEnd(forAnalysis.initVar, blockId, initBlockId, b.id,
       generateBlockId(b.st),
       convertExpressionToInput(incrementExpr, generateBlockId(b.st), Bump(b.st)))

\* the repeat block stored with the converted TIMES t, then the body
SimpleForBody(node, forAnalysis, blockId, initBlockId, t) ==
  LET st2 == Put(t.st, blockId,
               Block("control_repeat", initBlockId,
                     [TIMES |-> t.input, SUBSTACK |-> NullInput], <<>>))
  IN SimpleForIncrement(forAnalysis, blockId, initBlockId,
       IF ~IsNull(node.body) THEN convertNode(node.body, blockId, st2)
       ELSE [id |-> Null, st |-> st2])

\* the initialization block stored with the converted start value v, then TIMES
SimpleForTimes(node, forAnalysis, parentId, blockId, initBlockId, v) ==
  LET endExpr == forAnalysis.condition.right
      startExpr == forAnalysis.initValue
      span == BinaryExpression(endExpr, "-", startExpr)
      timesExpr == IF forAnalysis.condition.operator = "<" THEN span
                   ELSE BinaryExpression(span, "+", NumLit(1))
      st1 == Put(v.st, initBlockId,
               Block("data_setvariableto", parentId, [VALUE |-> v.input],
                     [VARIABLE |-> <<forAnalysis.initVar, forAnalysis.initVar>>]))
  IN SimpleForBody(node, forAnalysis, blockId, initBlockId,
       convertExpressionToInput(timesExpr, blockId, st1))

\* the simple branch of case 'ForStatement'
convertSimpleForLoop(node, forAnalysis, parentId, blockId, st) ==
  SimpleForTimes(node, forAnalysis, parentId, blockId, generateBlockId(st),
    convertExpressionToInput(forAnalysis.initValue, generateBlockId(st), Bump(st)))

\* case 'ForStatement' of convertNode
convertForStatement(node, parentId, blockId, st) ==
  LET forAnalysis == analyzeForLoop(node, st.vars)
      st1 == [st EXCEPT !.vars = forAnalysis.vars]
  IN IF forAnalysis.type = "simple" /\ forAnalysis.initVar # Null
        /\ ~IsNull(forAnalysis.condition)
     THEN convertSimpleForLoop(node, forAnalysis, parentId, blockId, st1)
     ELSE convertComplexForLoop(node, forAnalysis, parentId, st1)

\* BlockStatement's chaining of one converted statement r; acc = [prev, st]
BlockChain(acc, r) ==
  IF r.id = Null
  THEN [acc EXCEPT !.st = r.st]
  ELSE [prev |-> r.id,
        st |-> IF acc.prev # Null
               THEN SetParent(SetNext(r.st, acc.prev, r.id), r.id, acc.prev)
               ELSE r.st]

\* node.body.forEach of case 'BlockStatement', from statement i on
RECURSIVE BlockStatements(_, _, _, _)
BlockStatements(body, parentId, i, acc) ==
  IF i > Len(body) THEN acc
  ELSE BlockStatements(body, parentId, i + 1,
         BlockChain(acc, convertNode(body[i], parentId, acc.st)))

\* return prevId
BlockEnd(acc) == [id |-> acc.prev, st |-> acc.st]

\* case 'BlockStatement' of convertNode: the id returned is prevId
convertBlockStatement(node, parentId, st) ==
  BlockEnd(BlockStatements(node.body, parentId, 1, [prev |-> Null, st |-> st]))

convertNode(node, parentId, st) ==
  IF IsNull(node) THEN [id |-> Null, st |-> st]
  ELSE
  LET blockId == generateBlockId(st)
      st0 == Bump(st)
  IN
  CASE node.type = "Program" -> convertProgram(node, st0)
    [] node.type = "VariableDeclaration" ->
         convertVariableDeclaration(node, parentId, blockId, st0)
    [] node.type = "FunctionDeclaration" -> convertFunctionDeclaration(node, parentId, st0)
    [] node.type = "ExpressionStatement" -> convertNode(node.expression, parentId, st0)
    [] node.type = "AssignmentExpression" ->
         convertAssignmentExpression(node, parentId, blockId, st0)
    [] node.type = "CallExpression" -> convertCallStatement(node, parentId, blockId, st0)
    [] node.type = "ReturnStatement" -> [id |-> Null, st |-> st0]
    [] node.type = "IfStatement" -> convertIfStatement(node, parentId, blockId, st0)
    [] node.type = "WhileStatement" -> convertWhileStatement(node, parentId, blockId, st0)
    [] node.type = "ForStatement" -> convertForStatement(node, parentId, blockId, st0)
    [] node.type = "BlockStatement" -> convertBlockStatement(node, parentId, st0)
    [] OTHER -> [id |-> Null, st |-> st0]

\* astToScratchBlocks from "convertNode(ast)" on: the lowering state it ends in
astToScratchBlocks(tree, blks, ctr, vs) ==
  convertNode(tree, Null, [blocks |-> blks, ctr |-> ctr, vars |-> vs, err |-> Null,
                          depth |-> 0]).st

-----------------------------------------------------------------------------
(* The project assembler. *)

\* decl.init.elements.map(...) of collectInitialValues
ArrayValues(elements) ==
  [i \in 1..Len(elements) |->
     IF elements[i].type = "Literal" THEN StringOf(elements[i]) ELSE ""]

\* objValues of collectInitialValues, from property i on
RECURSIVE ObjectValues(_, _, _)
ObjectValues(properties, i, objValues) ==
  IF i > Len(properties) THEN objValues
  ELSE LET prop == properties[i]
       IN IF IsFlattenableKey(prop.key)
          THEN ObjectValues(properties, i + 1,
                 MapSet(objValues, PropertyKeyName(prop.key),
                        IF prop.value.type = "Literal" /\ prop.value.vtype = "number"
                        THEN prop.value.num ELSE 0))
          ELSE ObjectValues(properties, i + 1, objValues)

\* node.declarations.forEach of collectInitialValues; iv = [arrays, objects]
RECURSIVE InitialValuesOfDeclarators(_, _, _)
InitialValuesOfDeclarators(decls, i, iv) ==
  IF i > Len(decls) THEN iv
  ELSE LET decl == decls[i]
       IN InitialValuesOfDeclarators(decls, i + 1,
            IF ~IsNull(decl.init) /\ decl.init.type = "ArrayExpression"
            THEN [iv EXCEPT !.arrays =
                    MapSet(@, decl.id.name, ArrayValues(decl.init.elements))]
            ELSE IF ~IsNull(decl.init) /\ decl.init.type = "ObjectExpression"
            THEN [iv EXCEPT !.objects =
                    MapSet(@, decl.id.name,
                           ObjectValues(decl.init.properties, 1, <<>>))]
            ELSE iv)

RECURSIVE collectInitialValues(_, _)
RECURSIVE collectInitialValuesAll(_, _, _)
collectInitialValuesAll(children, i, iv) ==
  IF i > Len(children) THEN iv
  ELSE LET v == collectInitialValues(children[i], iv)
       IN CASE Evaluated(v) -> collectInitialValuesAll(children, i + 1, v)

collectInitialValues(node, iv) ==
  IF IsNull(node) THEN iv
  ELSE collectInitialValuesAll(Children(node), 1,
         IF node.type = "VariableDeclaration"
         THEN InitialValuesOfDeclarators(node.declarations, 1, iv) ELSE iv)

\* the flattened names objectMappings yields, with their initial values
FlatNames(om) ==
  UNION {{obj \o "_" \o om[obj][i] : i \in 1..Len(om[obj])} : obj \in DOMAIN om}

FlatValue(om, objects, flatName) ==
  LET obj == CHOOSE o \in DOMAIN om :
               \E i \in 1..Len(om[o]) : o \o "_" \o om[o][i] = flatName
      prop == om[obj][CHOOSE i \in 1..Len(om[obj]) : obj \o "_" \o om[obj][i] = flatName]
  IN IF obj \in DOMAIN objects /\ prop \in DOMAIN objects[obj]
     THEN objects[obj][prop] ELSE 0

\* variablesObj: name -> initial value
variablesObj(vs, om, objects) ==
  [name \in vs \cup FlatNames(om) |->
     IF name \in FlatNames(om) THEN FlatValue(om, objects, name) ELSE 0]

\* listsObj: name -> initial values
listsObj(ls, arrays) ==
  [name \in ls |-> IF name \in DOMAIN arrays THEN arrays[name] ELSE <<>>]

\* hasCanvasText that looks at top-level blocks only
hasCanvasTextTopLevel(blks) ==
  \E id \in DOMAIN blks : blks[id].opcode = "looks_say" /\ blks[id].topLevel

hasCanvasText(blks) == \E id \in DOMAIN blks : blks[id].opcode = "looks_say"

\* the sprite target of scratchProject
Sprite(tree, blks, vs, ls, om) ==
  LET iv == collectInitialValues(tree, [arrays |-> <<>>, objects |-> <<>>])
  IN [name |-> "Sprite1",
      variables |-> variablesObj(vs, om, iv.objects),
      lists |-> listsObj(ls, iv.arrays),
      blocks |-> blks,
      visible |-> ~hasCanvasText(blks)]

-----------------------------------------------------------------------------
(* Source programs.  A source text is a sequence of statements, one per    *)
(* line, each drawn from the statements below; Statements(line)[k] is the  *)
(* node acorn builds for statement k written on that line.                 *)

x == Identifier("x")
y == Identifier("y")
i == Identifier("i")
n == Identifier("n")

\* a statement acorn.parse rejects, e.g. "let = ;"
SyntaxError == [type |-> "SyntaxError"]

Statements(line) == <<
  \* 1: let x = 10;
  Let("x", NumLit(10)),
  \* 2: let y = x + 5;
  Let("y", BinaryExpression(x, "+", NumLit(5))),
  \* 3: let a = 1, b = 2;
  VariableDeclaration(<<VariableDeclarator(Identifier("a"), NumLit(1)),
                        VariableDeclarator(Identifier("b"), NumLit(2))>>),
  \* 4: x = x + 1;
  Assign("x", BinaryExpression(x, "+", NumLit(1))),
  \* 5: if (x < 5) { x = x + 1; y = 2; }
  IfStatement(BinaryExpression(x, "<", NumLit(5)),
    BlockStatement(<<Assign("x", BinaryExpression(x, "+", NumLit(1))),
                     Assign("y", NumLit(2))>>)),
  \* 6: if (x) {}
  IfStatement(x, BlockStatement(<<>>)),
  \* 7: while (x < 5) { x = x + 1; }
  WhileStatement(BinaryExpression(x, "<", NumLit(5)),
    BlockStatement(<<Assign("x", BinaryExpression(x, "+", NumLit(1)))>>)),
  \* 8: for (let i = 0; i < 3; i++) { x = i; }
  ForStatement(Let("i", NumLit(0)), BinaryExpression(i, "<", NumLit(3)),
    UpdateExpression("++", i), BlockStatement(<<Assign("x", i)>>)),
  \* 9: for (let i = 0; i < 10; i = i + 2) { x = i; y = x; }
  ForStatement(Let("i", NumLit(0)), BinaryExpression(i, "<", NumLit(10)),
    AssignmentExpression("=", i, BinaryExpression(i, "+", NumLit(2))),
    BlockStatement(<<Assign("x", i), Assign("y", x)>>)),
  \* 10: { x = 1; y = 2; }
  BlockStatement(<<Assign("x", NumLit(1)), Assign("y", NumLit(2))>>),
  \* 11: const f = (i) => f(i - 1);
  Let("f", ArrowFunctionExpression(FALSE, <<i>>,
    CallExpression(Identifier("f"), <<BinaryExpression(i, "-", NumLit(1))>>),
    Loc(line, 10))),
  \* 12: let r = f(1);
  Let("r", CallExpression(Identifier("f"), <<NumLit(1)>>)),
  \* 13: function fact(n) { if (n <= 1) return 1; return n * fact(n - 1); }
  FunctionDeclaration(Identifier("fact"), FALSE, <<n>>,
    BlockStatement(<<
      IfStatement(BinaryExpression(n, "<=", NumLit(1)), ReturnStatement(NumLit(1))),
      ReturnStatement(BinaryExpression(n, "*",
        CallExpression(Identifier("fact"), <<BinaryExpression(n, "-", NumLit(1))>>)))>>),
    Loc(line, 0)),
  \* 14: let t = fact(5);
  Let("t", CallExpression(Identifier("fact"), <<NumLit(5)>>)),
  \* 15: const add = (a, b) => a + b;
  Let("add", ArrowFunctionExpression(FALSE, <<Identifier("a"), Identifier("b")>>,
    BinaryExpression(Identifier("a"), "+", Identifier("b")), Loc(line, 12))),
  \* 16: let s = add(40, 35);
  Let("s", CallExpression(Identifier("add"), <<NumLit(40), NumLit(35)>>)),
  \* 17: if (x) { function g(n) { return g(n); } }
  IfStatement(x, BlockStatement(<<
    FunctionDeclaration(Identifier("g"), FALSE, <<n>>,
      BlockStatement(<<ReturnStatement(CallExpression(Identifier("g"), <<n>>))>>),
      Loc(line, 9))>>)),
  \* 18: fetch(x);
  ExpressionStatement(CallExpression(Identifier("fetch"), <<x>>)),
  \* 19: console.log(x);
  ExpressionStatement(CallExpression(
    MemberExpression(Identifier("console"), Identifier("log"), FALSE, Loc(line, 0)),
    <<x>>)),
  \* 20: let m = x % 2;
  Let("m", BinaryExpression(x, "%", NumLit(2))),
  \* 21: let arr = [1, 2, 3];
  Let("arr", ArrayExpression(<<NumLit(1), NumLit(2), NumLit(3)>>)),
  \* 22: arr.pop();
  ExpressionStatement(CallExpression(
    MemberExpression(Identifier("arr"), Identifier("pop"), FALSE, Loc(line, 0)), <<>>)),
  \* 23: let obj = {a: 1};
  Let("obj", ObjectExpression(<<Property(Identifier("a"), NumLit(1))>>)),
  \* 24: obj.a = x;
  ExpressionStatement(AssignmentExpression("=",
    MemberExpression(Identifier("obj"), Identifier("a"), FALSE, Loc(line, 0)), x)),
  \* 25: scratch_say("hi");
  ExpressionStatement(CallExpression(Identifier("scratch_say"), <<StrLit("hi")>>)),
  \* 26: function h(p) { let q = 1; return p; }
  FunctionDeclaration(Identifier("h"), FALSE, <<Identifier("p")>>,
    BlockStatement(<<Let("q", NumLit(1)), ReturnStatement(Identifier("p"))>>),
    Loc(line, 0)),
  \* 27: async function k() {}
  FunctionDeclaration(Identifier("k"), TRUE, <<>>, BlockStatement(<<>>), Loc(line, 0)),
  \* 28: let = ;
  SyntaxError,
  \* 29: for (let i = 0; i <= 3; i += 1) for (; x < 5;) y = i;
  ForStatement(Let("i", NumLit(0)), BinaryExpression(i, "<=", NumLit(3)),
    AssignmentExpression("+=", i, NumLit(1)),
    ForStatement(NullNode, BinaryExpression(x, "<", NumLit(5)), NullNode,
                 Assign("y", i))),
  \* 30: let v = obj["a"];
  Let("v", MemberExpression(Identifier("obj"), StrLit("a"), TRUE, Loc(line, 8))),
  \* 31: obj["a"] = x;
  ExpressionStatement(AssignmentExpression("=",
    MemberExpression(Identifier("obj"), StrLit("a"), TRUE, Loc(line, 0)), x)),
  \* 32: for (let i = 0; x < 10; i++) { x = x + 1; }
  ForStatement(Let("i", NumLit(0)), BinaryExpression(x, "<", NumLit(10)),
    UpdateExpression("++", i),
    BlockStatement(<<Assign("x", BinaryExpression(x, "+", NumLit(1)))>>)),
  \* 33: for (let i = 0; i < 10; i += 2) { x = i; }
  ForStatement(Let("i", NumLit(0)), BinaryExpression(i, "<", NumLit(10)),
    AssignmentExpression("+=", i, NumLit(2)), BlockStatement(<<Assign("x", i)>>)),
  \* 34: for (let i = 0; i < 10; i = i + 2) { x = i; }
  ForStatement(Let("i", NumLit(0)), BinaryExpression(i, "<", NumLit(10)),
    AssignmentExpression("=", i, BinaryExpression(i, "+", NumLit(2))),
    BlockStatement(<<Assign("x", i)>>)),
  \* 35: const lt = (a, b) => a < b;
  Let("lt", ArrowFunctionExpression(FALSE, <<Identifier("a"), Identifier("b")>>,
    BinaryExpression(Identifier("a"), "<", Identifier("b")), Loc(line, 11)))
>>

Sources == UNION {[1..len -> 1..Len(Statements(1))] : len \in 0..MaxStmts}

\* acorn.parse(code, {ecmaVersion: 2020, locations: true}): the Program node
Parses(code) == \A line \in 1..Len(code) : Statements(line)[code[line]].type # "SyntaxError"
acornParse(code) == Program([line \in 1..Len(code) |-> Statements(line)[code[line]]])

-----------------------------------------------------------------------------
(* translateToScratch, step by step. *)

\* no run of the translate command: nothing met, no directory on disk
NoCliInput ==
  [file |-> "none", archive |-> "none", translation |-> "none", packaging |-> "none",
   undeletable |-> {}]
CliIdle ==
  /\ cliInput = NoCliInput
  /\ tempDir = Null
  /\ existing = {}
  /\ exitCode = -1

NoError == [name |-> "none", message |-> "", feature |-> "", line |-> 0, column |-> 0]
Error(message) ==
  [name |-> "Error", message |-> message, feature |-> "", line |-> 0, column |-> 0]
Thrown(error) ==
  [name |-> error.name,
   message |-> "Unsupported feature '" \o error.feature \o "' found at line "
               \o ToString(error.line) \o ", column " \o ToString(error.column),
   feature |-> error.feature, line |-> error.line, column |-> error.column]

NoResult == [success |-> FALSE, project |-> <<>>]

Init ==
  /\ pc = "start"
  /\ source \in Sources
  /\ ast = NullNode
  /\ functionDefinitions = <<>>
  /\ variables = {}
  /\ lists = {}
  /\ objectMappings = <<>>
  /\ recursiveFunctions = {}
  /\ blocks = <<>>
  /\ blockIdCounter = 0
  /\ result = NoResult
  /\ thrown = NoError
  /\ encodeExpr = NullNode
  /\ encoded = NullInput
  /\ canvasCode = <<>>
  /\ transformed = <<>>
  /\ CliIdle

\* acorn.parse; a syntax error is rethrown as "Failed to parse JavaScript"
Parse ==
  /\ pc = "start"
  /\ IF Parses(source)
     THEN /\ ast' = acornParse(source)
          /\ pc' = "parsed"
          /\ UNCHANGED thrown
     ELSE /\ thrown' = Error("Failed to parse JavaScript: Unexpected token")
          /\ pc' = "thrown"
          /\ UNCHANGED ast
  /\ UNCHANGED <<source, functionDefinitions, variables, lists, objectMappings,
                 recursiveFunctions, blocks, blockIdCounter, result>>
  /\ UNCHANGED auxVars

\* checkUnsupportedFeatures; throw errors[0]
CheckFeatures ==
  /\ pc = "parsed"
  /\ LET errors == checkUnsupportedFeatures(ast)
     IN IF Len(errors) > 0
        THEN /\ thrown' = Thrown(errors[1])
             /\ pc' = "thrown"
        ELSE /\ pc' = "checked"
             /\ UNCHANGED thrown
  /\ UNCHANGED <<source, ast, functionDefinitions, variables, lists, objectMappings,
                 recursiveFunctions, blocks, blockIdCounter, result>>
  /\ UNCHANGED auxVars

\* first pass of astToScratchBlocks
CollectFunctionsAndVariables ==
  /\ pc = "checked"
  /\ LET tab == collectFunctionsAndVariables(ast,
                  [fd |-> functionDefinitions, vars |-> variables,
                   lists |-> lists, om |-> objectMappings])
     IN /\ functionDefinitions' = tab.fd
        /\ variables' = tab.vars
        /\ lists' = tab.lists
        /\ objectMappings' = tab.om
  /\ pc' = "collected"
  /\ UNCHANGED <<source, ast, recursiveFunctions, blocks, blockIdCounter, result, thrown>>
  /\ UNCHANGED auxVars

\* second pass
CollectVariableReferences ==
  /\ pc = "collected"
  /\ variables' = collectVariableReferences(ast, variables)
  /\ pc' = "referenced"
  /\ UNCHANGED <<source, ast, functionDefinitions, lists, objectMappings,
                 recursiveFunctions, blocks, blockIdCounter, result, thrown>>
  /\ UNCHANGED auxVars

\* third pass: recursion detection and cleanup of variables
DetectRecursiveFunctions ==
  /\ pc = "referenced"
  /\ recursiveFunctions' =
       {f \in DOMAIN functionDefinitions : isRecursive(f, functionDefinitions[f].body)}
  /\ variables' = CleanedVariables(functionDefinitions, variables)
  /\ pc' = "analyzed"
  /\ UNCHANGED <<source, ast, functionDefinitions, lists, objectMappings,
                 blocks, blockIdCounter, result, thrown>>
  /\ UNCHANGED auxVars

\* convertNode(ast); an error thrown inside is rethrown by translateToScratch
Lower ==
  /\ pc = "analyzed"
  /\ LET st == astToScratchBlocks(ast, blocks, blockIdCounter, variables)
     IN IF st.err = Null
        THEN /\ blocks' = st.blocks
             /\ blockIdCounter' = st.ctr
             /\ variables' = st.vars
             /\ pc' = "lowered"
             /\ UNCHANGED thrown
        ELSE /\ thrown' = Error("Failed to parse JavaScript: " \o st.err)
             /\ pc' = "thrown"
             /\ UNCHANGED <<blocks, blockIdCounter, variables>>
  /\ UNCHANGED <<source, ast, functionDefinitions, lists, objectMappings,
                 recursiveFunctions, result>>
  /\ UNCHANGED auxVars

\* the project envelope; return {success: true, project}
Assemble ==
  /\ pc = "lowered"
  /\ result' = [success |-> TRUE,
                project |-> Sprite(ast, blocks, variables, lists, objectMappings)]
  /\ pc' = "done"
  /\ UNCHANGED <<source, ast, functionDefinitions, variables, lists, objectMappings,
                 recursiveFunctions, blocks, blockIdCounter, thrown>>
  /\ UNCHANGED auxVars

Next ==
  \/ Parse
  \/ CheckFeatures
  \/ CollectFunctionsAndVariables
  \/ CollectVariableReferences
  \/ DetectRecursiveFunctions
  \/ Lower
  \/ Assemble

Spec == Init /\ [][Next]_vars

-----------------------------------------------------------------------------
(* Properties of a finished compilation.  Compiled is the state in which    *)
(* translateToScratch has returned {success: true, project}; Emitted is the *)
(* block store of the sprite it returned.                                   *)

Compiled == pc = "done" /\ result.success
Emitted == result.project.blocks
TopLevelBlocks == {id \in DOMAIN Emitted : Emitted[id].topLevel}

\* C1: after a successful compilation exactly one block has topLevel = true,
\* and that block is the event_whenflagclicked root with parent null.
ExactlyOneTopLevelRoot ==
  Compiled =>
    /\ Cardinality(TopLevelBlocks) = 1
    /\ \A id \in TopLevelBlocks :
         /\ Emitted[id].opcode = "event_whenflagclicked"
         /\ Emitted[id].parent = Null

\* a recursive function declared inside a block keeps topLevel = true beside
\* the event block, with the enclosing block as its parent
NestedDefinitionStaysTopLevel ==
  /\ Compiled
  /\ \E id \in TopLevelBlocks :
       /\ Emitted[id].opcode = "procedures_definition"
       /\ Emitted[id].parent # Null
  /\ \E id \in TopLevelBlocks : Emitted[id].opcode = "event_whenflagclicked"

\* C2: after a successful compilation every block other than the
\* event_whenflagclicked root has a non-null parent that is in the block store.
EveryNonRootHasParent ==
  Compiled =>
    \A id \in DOMAIN Emitted :
      Emitted[id].opcode # "event_whenflagclicked" =>
        /\ Emitted[id].parent # Null
        /\ Emitted[id].parent \in DOMAIN Emitted

\* a statement block that is not the root and has parent null
OrphanStatementBlock ==
  /\ Compiled
  /\ \E id \in DOMAIN Emitted :
       /\ Emitted[id].opcode = "data_setvariableto"
       /\ Emitted[id].parent = Null

\* C3: after a successful compilation, for every block b with next not null,
\* blocks[b.next] exists and blocks[b.next].parent is the id of b.
NextParentConsistent ==
  Compiled =>
    \A id \in DOMAIN Emitted :
      Emitted[id].next # Null =>
        /\ Emitted[id].next \in DOMAIN Emitted
        /\ Emitted[Emitted[id].next].parent = id

\* a block whose successor names another block as its parent
SuccessorWithOtherParent ==
  /\ Compiled
  /\ \E id \in DOMAIN Emitted :
       /\ Emitted[id].next \in DOMAIN Emitted
       /\ Emitted[Emitted[id].next].parent # id

\* the inputs [2, id] of a block: the ones whose operand is a block id
BlockOperands(block) ==
  {name \in DOMAIN block.inputs : block.inputs[name].kind = "block"}

\* C4: after a successful compilation every input whose operand is a block id
\* names a block of the block store; none holds a null or absent id.
InputBlocksExist ==
  Compiled =>
    \A id \in DOMAIN Emitted :
      \A name \in BlockOperands(Emitted[id]) :
        /\ Emitted[id].inputs[name].block # Null
        /\ Emitted[id].inputs[name].block \in DOMAIN Emitted

\* a control_if whose SUBSTACK is [2, null]
IfWithNullSubstack ==
  /\ Compiled
  /\ \E id \in DOMAIN Emitted :
       /\ Emitted[id].opcode = "control_if"
       /\ "SUBSTACK" \in BlockOperands(Emitted[id])
       /\ Emitted[id].inputs.SUBSTACK.block = Null

\* following next from id ends at null within fuel steps
RECURSIVE NextEnds(_, _, _)
NextEnds(blks, id, fuel) ==
  IF id = Null THEN TRUE
  ELSE IF fuel = 0 \/ id \notin DOMAIN blks THEN FALSE
  ELSE NextEnds(blks, blks[id].next, fuel - 1)

\* following parent from id ends at a block with parent null within fuel steps
RECURSIVE ParentEnds(_, _, _)
ParentEnds(blks, id, fuel) ==
  IF id \notin DOMAIN blks THEN FALSE
  ELSE IF blks[id].parent = Null THEN TRUE
  ELSE IF fuel = 0 THEN FALSE
  ELSE ParentEnds(blks, blks[id].parent, fuel - 1)

\* C5: after a successful compilation the block store is acyclic: from every
\* block, following next reaches null and following parent reaches a block
\* with parent null, in both cases without visiting a block twice (a walk of
\* as many steps as there are blocks visits no block twice).
BlockStoreAcyclic ==
  Compiled =>
    \A id \in DOMAIN Emitted :
      /\ NextEnds(Emitted, id, Cardinality(DOMAIN Emitted))
      /\ ParentEnds(Emitted, id, Cardinality(DOMAIN Emitted))

\* both for-loop normalizations have linked their blocks: a control_repeat
\* whose increment block follows the body, and a control_repeat_until whose
\* update block follows the body
ForLoopsLinked ==
  /\ Compiled
  /\ \E id \in DOMAIN Emitted :
       /\ Emitted[id].opcode = "control_repeat"
       /\ Emitted[id].inputs.SUBSTACK.kind = "block"
       /\ Emitted[Emitted[id].inputs.SUBSTACK.block].next # Null
  /\ \E id \in DOMAIN Emitted :
       /\ Emitted[id].opcode = "control_repeat_until"
       /\ Emitted[id].inputs.SUBSTACK.kind = "block"
       /\ Emitted[Emitted[id].inputs.SUBSTACK.block].next # Null

ProcedureBlocks(opcode) ==
  {id \in DOMAIN Emitted : Emitted[id].opcode = opcode}

\* C6: after a successful compilation every procedures_call block has a
\* procedures_definition block with the same proccode and the same
\* argumentids.
EveryCallHasDefinition ==
  Compiled =>
    \A call \in ProcedureBlocks("procedures_call") :
      \E def \in ProcedureBlocks("procedures_definition") :
        /\ Emitted[def].mutation.proccode = Emitted[call].mutation.proccode
        /\ Emitted[def].mutation.argumentids = Emitted[call].mutation.argumentids

\* a call of a recursive arrow function, and no definition block at all
CallOfArrowWithoutDefinition ==
  /\ Compiled
  /\ \E call \in ProcedureBlocks("procedures_call") :
       /\ Emitted[call].mutation.proccode \in recursiveFunctions
       /\ \E k \in 1..Len(ast.body) :
            /\ ast.body[k].type = "VariableDeclaration"
            /\ ast.body[k].declarations[1].init.type = "ArrowFunctionExpression"
            /\ ast.body[k].declarations[1].id.name
                 = Emitted[call].mutation.proccode
  /\ ProcedureBlocks("procedures_definition") = {}

\* the banned list of the README
BannedFeatures ==
  {"window.location", "window.alert", "window.confirm", "window.prompt",
   "console.log", "localStorage", "sessionStorage", "fetch", "XMLHttpRequest",
   "setTimeout", "setInterval", "Promise", "async", "await"}

\* does the subtree use a banned feature: a member expression that is or
\* starts with a banned name, a bare identifier with a banned name, an async
\* function or an await
RECURSIVE UsesBanned(_)
RECURSIVE UsesBannedAny(_, _)
UsesBannedAny(children, k) ==
  IF k > Len(children) THEN FALSE
  ELSE UsesBanned(children[k]) \/ UsesBannedAny(children, k + 1)

UsesBanned(node) ==
  IF IsNull(node) THEN FALSE
  ELSE
    \/ /\ node.type = "MemberExpression"
       /\ \E f \in BannedFeatures :
            \/ getMemberExpressionString(node) = f
            \/ StartsWith(getMemberExpressionString(node), f \o ".")
    \/ node.type = "Identifier" /\ node.name \in BannedFeatures
    \/ /\ node.type \in {"FunctionDeclaration", "FunctionExpression",
                         "ArrowFunctionExpression"}
       /\ node.async
    \/ node.type = "AwaitExpression"
    \/ UsesBannedAny(Children(node), 1)

\* C7: a program that uses a banned feature, as a member expression or as a
\* bare identifier, never gets past the feature gate: translateToScratch throws
\* an UnsupportedFeatureError carrying feature, line and column, and returns no
\* project.
BannedFeatureThrows ==
  (pc \notin {"start", "parsed"} /\ UsesBanned(ast)) =>
    /\ pc = "thrown"
    /\ thrown.name = "UnsupportedFeatureError"
    /\ thrown.feature \in BannedFeatures
    /\ thrown.line > 0
    /\ result = NoResult

\* a program that calls the bare identifier fetch was compiled
BareBannedCallCompiled ==
  /\ Compiled
  /\ \E k \in 1..Len(ast.body) :
       /\ ast.body[k].type = "ExpressionStatement"
       /\ ast.body[k].expression.type = "CallExpression"
       /\ ast.body[k].expression.callee.type = "Identifier"
       /\ ast.body[k].expression.callee.name \in BannedFeatures

\* C8: a program that parses and passes the feature gate is compiled: the only
\* errors translateToScratch throws are parse errors and
\* UnsupportedFeatureErrors; block lowering raises none (an operator outside
\* the lowering table is skipped).
LoweringNeverRaises ==
  (pc = "thrown" /\ Parses(source)) => thrown.name = "UnsupportedFeatureError"

\* a program that parsed and passed the gate ended in the error of
\* getBinaryOperatorOpcode
UnmappedOperatorRaised ==
  /\ pc = "thrown"
  /\ Parses(source)
  /\ Len(checkUnsupportedFeatures(ast)) = 0
  /\ thrown.message = "Failed to parse JavaScript: Unsupported binary operator: %"

\* C9: after a successful compilation no name of functionDefinitions and no
\* parameter name of such a function is a key of the sprite's variables.
NoFunctionNameInVariables ==
  Compiled =>
    DOMAIN result.project.variables
      \cap (DOMAIN functionDefinitions \cup AllParamNames(functionDefinitions)) = {}

\* a parameter name that is also the variable of a for loop is a key of
\* variables
LoopVariableParameterKept ==
  /\ Compiled
  /\ \E name \in AllParamNames(functionDefinitions) :
       /\ name \in DOMAIN result.project.variables
       /\ \E k \in 1..Len(ast.body) :
            /\ ast.body[k].type = "ForStatement"
            /\ analyzeForLoop(ast.body[k], {}).initVar = name

\* the names some emitted block carries in its VARIABLE field
VariableFieldNames ==
  {Emitted[id].fields.VARIABLE[1] :
     id \in {b \in DOMAIN Emitted : "VARIABLE" \in DOMAIN Emitted[b].fields}}

\* C10: after a successful compilation every key of the sprite's variables is
\* in the VARIABLE field of some emitted block or is a flattened obj_prop name.
EveryVariableIsEmitted ==
  Compiled =>
    \A name \in DOMAIN result.project.variables :
      name \in VariableFieldNames \cup FlatNames(objectMappings)

\* the second declarator of a declaration is a key of variables and no block
\* carries it
SecondDeclaratorNotEmitted ==
  /\ Compiled
  /\ \E k \in 1..Len(ast.body) :
       /\ ast.body[k].type = "VariableDeclaration"
       /\ Len(ast.body[k].declarations) > 1
       /\ ast.body[k].declarations[2].id.name \in DOMAIN result.project.variables
       /\ ast.body[k].declarations[2].id.name
            \notin VariableFieldNames \cup FlatNames(objectMappings)

-----------------------------------------------------------------------------
(* convertExpressionToInput on its own: one call on one expression, in the   *)
(* symbol tables the analysis passes leave for the declarations of Prelude.  *)

\* function ping(n) { return pong(n); }
Ping(line) ==
  FunctionDeclaration(Identifier("ping"), FALSE, <<n>>,
    BlockStatement(<<ReturnStatement(CallExpression(Identifier("pong"), <<n>>))>>),
    Loc(line, 0))
\* function pong(n) { return ping(n); }
Pong(line) ==
  FunctionDeclaration(Identifier("pong"), FALSE, <<n>>,
    BlockStatement(<<ReturnStatement(CallExpression(Identifier("ping"), <<n>>))>>),
    Loc(line, 0))

\* const add = (a, b) => a + b;
\* function fact(n) { if (n <= 1) return 1; return n * fact(n - 1); }
\* let arr = [1, 2, 3];
\* let obj = {a: 1};
\* function h(p) { let q = 1; return p; }
\* const lt = (a, b) => a < b;
\* function ping(n) { return pong(n); }
\* function pong(n) { return ping(n); }
Prelude ==
  Program(<<Statements(1)[15], Statements(2)[13], Statements(3)[21],
            Statements(4)[23], Statements(5)[26], Statements(6)[35],
            Ping(7), Pong(8)>>)

PreludeTables ==
  collectFunctionsAndVariables(Prelude,
    [fd |-> <<>>, vars |-> {}, lists |-> {}, om |-> <<>>])

\* the operands of the expressions: x, y, 5, "hi", x + 1
Operands ==
  <<x, y, NumLit(5), StrLit("hi"), BinaryExpression(x, "+", NumLit(1))>>

BinaryOperators ==
  {"<", ">", "==", "===", "!=", "!==", "<=", ">=", "+", "-", "*", "/", "%"}

\* expressions that are not binary: !x, arr.length, arr[x], obj.a, fact(5),
\* h(x), x, 5, the calls with fewer arguments than parameters add(x),
\* lt(x), fact(), h(), and ping(1), add(add(x, 1), h(y))
OtherExpressions ==
  <<UnaryExpression("!", x),
    MemberExpression(Identifier("arr"), Identifier("length"), FALSE, Loc(1, 0)),
    MemberExpression(Identifier("arr"), x, TRUE, Loc(1, 0)),
    MemberExpression(Identifier("obj"), Identifier("a"), FALSE, Loc(1, 0)),
    CallExpression(Identifier("fact"), <<NumLit(5)>>),
    CallExpression(Identifier("h"), <<x>>),
    x,
    NumLit(5),
    CallExpression(Identifier("add"), <<x>>),
    CallExpression(Identifier("lt"), <<x>>),
    CallExpression(Identifier("fact"), <<>>),
    CallExpression(Identifier("h"), <<>>),
    CallExpression(Identifier("ping"), <<NumLit(1)>>),
    CallExpression(Identifier("add"),
      <<CallExpression(Identifier("add"), <<x, NumLit(1)>>),
        CallExpression(Identifier("h"), <<y>>)>>)>>

EncodeInit ==
  /\ pc = "encode"
  /\ source = <<>>
  /\ ast = Prelude
  /\ functionDefinitions = PreludeTables.fd
  /\ lists = PreludeTables.lists
  /\ objectMappings = PreludeTables.om
  /\ recursiveFunctions =
       {f \in DOMAIN PreludeTables.fd : isRecursive(f, PreludeTables.fd[f].body)}
  /\ variables =
       CleanedVariables(PreludeTables.fd,
                        collectVariableReferences(Prelude, PreludeTables.vars))
  /\ blocks = <<>>
  /\ blockIdCounter = 0
  /\ result = NoResult
  /\ thrown = NoError
  /\ encoded = NullInput
  /\ canvasCode = <<>>
  /\ transformed = <<>>
  /\ CliIdle
  /\ \/ \E op \in BinaryOperators, l \in 1..Len(Operands), r \in 1..Len(Operands) :
          encodeExpr = BinaryExpression(Operands[l], op, Operands[r])
     \/ \E l \in 1..Len(Operands), r \in 1..Len(Operands) :
          encodeExpr = CallExpression(Identifier("add"), <<Operands[l], Operands[r]>>)
     \/ \E k \in 1..Len(OtherExpressions) : encodeExpr = OtherExpressions[k]

\* convertExpressionToInput(expr): the blocks it stores and the input it
\* returns, or the error it throws
Encode ==
  /\ pc = "encode"
  /\ LET r == convertExpressionToInput(encodeExpr, Null,
                [blocks |-> blocks, ctr |-> blockIdCounter,
                 vars |-> variables, err |-> Null, depth |-> 0])
     IN IF r.st.err = Null
        THEN /\ blocks' = r.st.blocks
             /\ blockIdCounter' = r.st.ctr
             /\ encoded' = r.input
             /\ pc' = "encoded"
             /\ UNCHANGED thrown
        ELSE /\ thrown' = Error(r.st.err)
             /\ pc' = "thrown"
             /\ UNCHANGED <<blocks, blockIdCounter, encoded>>
  /\ UNCHANGED <<source, ast, functionDefinitions, variables, lists, objectMappings,
                 recursiveFunctions, result, encodeExpr, canvasCode, transformed>>
  /\ UNCHANGED cliVars

EncodeNext == Encode

EncodeSpec == EncodeInit /\ [][EncodeNext]_vars

-----------------------------------------------------------------------------
(* Claims about convertExpressionToInput, checked under EncodeSpec.          *)

Encoded == pc = "encoded"

\* the opcode of the comparison block that stands for an operator
ComparisonOpcode(operator) ==
  CASE operator \in {"<", ">="} -> "operator_lt"
    [] operator \in {">", "<="} -> "operator_gt"
    [] OTHER -> "operator_equals"

\* the input refers to a stored comparison block of that opcode whose slots
\* are OPERAND1 and OPERAND2
IsComparisonBlock(inp, opcode) ==
  /\ inp.tag = 2 /\ inp.kind = "block"
  /\ inp.block \in DOMAIN blocks
  /\ blocks[inp.block].opcode = opcode
  /\ DOMAIN blocks[inp.block].inputs = {"OPERAND1", "OPERAND2"}

\* C11: a comparison <, >, ==, === is returned as [2, id] of an operator_lt,
\* operator_gt, operator_equals block; !=, !==, <=, >= are returned as [2, id]
\* of an operator_not whose OPERAND is [2, id] of the operator_equals,
\* operator_gt, operator_lt block; comparison blocks have the slots OPERAND1
\* and OPERAND2, arithmetic blocks NUM1 and NUM2.
ComparisonsWrapNegation ==
  (Encoded /\ encodeExpr.type = "BinaryExpression") =>
     CASE encodeExpr.operator \in {"<", ">", "==", "==="} ->
            IsComparisonBlock(encoded, ComparisonOpcode(encodeExpr.operator))
       [] encodeExpr.operator \in {"!=", "!==", "<=", ">="} ->
            /\ encoded.tag = 2 /\ encoded.kind = "block"
            /\ encoded.block \in DOMAIN blocks
            /\ blocks[encoded.block].opcode = "operator_not"
            /\ DOMAIN blocks[encoded.block].inputs = {"OPERAND"}
            /\ IsComparisonBlock(blocks[encoded.block].inputs.OPERAND,
                                 ComparisonOpcode(encodeExpr.operator))
       [] OTHER ->
            /\ encoded.tag = 2 /\ encoded.kind = "block"
            /\ encoded.block \in DOMAIN blocks
            /\ DOMAIN blocks[encoded.block].inputs = {"NUM1", "NUM2"}

\* x <= (x + 1) was encoded: an operator_not over an operator_gt whose right
\* operand is an operator_add
LessOrEqualEncoded ==
  /\ Encoded
  /\ encodeExpr = BinaryExpression(x, "<=", BinaryExpression(x, "+", NumLit(1)))
  /\ blocks[encoded.block].opcode = "operator_not"
  /\ blocks[blocks[encoded.block].inputs.OPERAND.block].opcode = "operator_gt"
  /\ \E id \in DOMAIN blocks : blocks[id].opcode = "operator_add"

\* the state convertExpressionToInput is called in
EncodeStart ==
  [blocks |-> <<>>, ctr |-> 0, vars |-> variables, err |-> Null, depth |-> 0]

\* the names blocks carry in a VARIABLE field
EncodedVariableFields ==
  {blocks[id].fields.VARIABLE[1] :
     id \in {b \in DOMAIN blocks : "VARIABLE" \in DOMAIN blocks[b].fields}}

\* C12: for add = (a, b) => a + b, which is not recursive, the call
\* add(l, r) leaves the blocks and returns the input that l + r leaves and
\* returns from the same state; no block is a procedure block, no block names
\* add in a VARIABLE field and add is no key of the sprite's variables.
InlinedCallIsTheSum ==
  \A l \in 1..Len(Operands), r \in 1..Len(Operands) :
    (Encoded /\ encodeExpr = CallExpression(Identifier("add"), <<Operands[l], Operands[r]>>))
      => /\ blocks =
              convertExpressionToInput(BinaryExpression(Operands[l], "+", Operands[r]),
                                       Null, EncodeStart).st.blocks
         /\ encoded =
              convertExpressionToInput(BinaryExpression(Operands[l], "+", Operands[r]),
                                       Null, EncodeStart).input
         /\ \A id \in DOMAIN blocks :
              blocks[id].opcode \notin
                {"procedures_call", "procedures_definition", "procedures_prototype"}
         /\ "add" \notin EncodedVariableFields
         /\ "add" \notin DOMAIN variablesObj(variables, objectMappings, <<>>)

\* add(x, 5) was encoded: one operator_add block over x and 5
AddOfVariableAndLiteralInlined ==
  /\ Encoded
  /\ encodeExpr = CallExpression(Identifier("add"), <<x, NumLit(5)>>)
  /\ "add" \in DOMAIN functionDefinitions /\ "add" \notin recursiveFunctions
  /\ encoded.kind = "block"
  /\ DOMAIN blocks = {encoded.block}
  /\ blocks[encoded.block].opcode = "operator_add"
  /\ blocks[encoded.block].inputs.NUM1 = VariableInput("x", 4, "")
  /\ blocks[encoded.block].inputs.NUM2 = ShadowInput(4, "5")

-----------------------------------------------------------------------------
(* Further properties of a finished compilation, checked under Spec.         *)

\* the statements `let v = f(...)` of the program whose callee is a recursive
\* function
RecursiveCallDeclarations ==
  {k \in 1..Len(ast.body) :
     /\ ast.body[k].type = "VariableDeclaration"
     /\ ~IsNull(ast.body[k].declarations[1].init)
     /\ ast.body[k].declarations[1].init.type = "CallExpression"
     /\ ast.body[k].declarations[1].init.callee.type = "Identifier"
     /\ ast.body[k].declarations[1].init.callee.name \in recursiveFunctions}

CalleeOf(k) == ast.body[k].declarations[1].init.callee.name

\* C13: after a successful compilation every call of a recursive function f in
\* expression position has a procedures_call block whose proccode is f and whose
\* argumentids is the JSON list of f's parameters, and f_result is a key of the
\* sprite's variables.
RecursiveCallHasResultVariable ==
  Compiled =>
    \A k \in RecursiveCallDeclarations :
      /\ \E call \in ProcedureBlocks("procedures_call") :
           /\ Emitted[call].mutation.proccode = CalleeOf(k)
           /\ Emitted[call].mutation.argumentids =
                JSONstringify(ParamNames(functionDefinitions[CalleeOf(k)].params))
      /\ (CalleeOf(k) \o "_result") \in DOMAIN result.project.variables

\* let t = fact(5) was compiled to a procedures_call of fact with argumentids
\* ["n"], and the sprite has no variable fact_result
CallOfFactWithoutResultVariable ==
  /\ Compiled
  /\ \E k \in RecursiveCallDeclarations : CalleeOf(k) = "fact"
  /\ \E call \in ProcedureBlocks("procedures_call") :
       /\ Emitted[call].mutation.proccode = "fact"
       /\ Emitted[call].mutation.argumentids = "[\"n\"]"
       /\ Emitted[call].parent \in DOMAIN Emitted
       /\ Emitted[Emitted[call].parent].opcode = "data_setvariableto"
  /\ "fact_result" \notin DOMAIN result.project.variables

\* the functions whose body is a block with a return statement
FunctionsWithReturn ==
  {f \in DOMAIN functionDefinitions :
     /\ ~IsNull(functionDefinitions[f].body)
     /\ functionDefinitions[f].body.type = "BlockStatement"
     /\ ~IsNull(FindReturn(functionDefinitions[f].body.body, 1))}

\* the statements `let v = f(...)` of the program whose callee is in fs
CallDeclarations(fs) ==
  {k \in 1..Len(ast.body) :
     /\ ast.body[k].type = "VariableDeclaration"
     /\ ~IsNull(ast.body[k].declarations[1].init)
     /\ ast.body[k].declarations[1].init.type = "CallExpression"
     /\ ast.body[k].declarations[1].init.callee.type = "Identifier"
     /\ ast.body[k].declarations[1].init.callee.name \in fs}

\* C14: after a successful compilation every function whose body is a block
\* with a return statement, recursive or not, has a procedures_definition
\* block whose proccode is its name, every call of it in expression position
\* has a procedures_call with that proccode, and <name>_result is a key of the
\* sprite's variables.
FunctionsWithReturnAreProcedures ==
  Compiled =>
    /\ \A f \in FunctionsWithReturn :
         /\ \E def \in ProcedureBlocks("procedures_definition") :
              Emitted[def].mutation.proccode = f
         /\ (f \o "_result") \in DOMAIN result.project.variables
    /\ \A k \in CallDeclarations(FunctionsWithReturn) :
         \E call \in ProcedureBlocks("procedures_call") :
           Emitted[call].mutation.proccode = CalleeOf(k)

\* function h(p) { let q = 1; return p; } is not recursive and was compiled
\* to no procedures_definition
ReturningFunctionWithoutDefinition ==
  /\ Compiled
  /\ "h" \in FunctionsWithReturn
  /\ "h" \notin recursiveFunctions
  /\ \A def \in ProcedureBlocks("procedures_definition") :
       Emitted[def].mutation.proccode # "h"
  /\ "h_result" \notin DOMAIN result.project.variables

\* a top-level statement for which convertNode returns null without storing
\* a block: the declaration of a function or an array, or of a function that
\* is not recursive
EmitsNoBlock(stmt) ==
  \/ /\ stmt.type = "VariableDeclaration"
     /\ ~IsNull(stmt.declarations[1].init)
     /\ stmt.declarations[1].init.type \in
          {"ArrowFunctionExpression", "FunctionExpression", "ArrayExpression"}
  \/ /\ stmt.type = "FunctionDeclaration"
     /\ stmt.id.name \notin recursiveFunctions

\* C15: after a successful compilation of the empty program, or of a program
\* none of whose top-level statements emits a block, the block store holds
\* exactly two blocks, one event_whenflagclicked and one control_stop.
EmptyProgramHasHatAndStop ==
  (Compiled /\ \A k \in 1..Len(ast.body) : EmitsNoBlock(ast.body[k])) =>
     /\ Cardinality(DOMAIN Emitted) = 2
     /\ \E hat \in DOMAIN Emitted : Emitted[hat].opcode = "event_whenflagclicked"
     /\ \E stop \in DOMAIN Emitted : Emitted[stop].opcode = "control_stop"

\* the empty program was compiled to an empty block store
EmptyProgramHasNoBlocks ==
  /\ Compiled
  /\ source = <<>>
  /\ ast.body = <<>>
  /\ DOMAIN Emitted = {}

\* the bracket reads obj["prop"] and bracket assignments obj["prop"] = v of
\* the program's top-level statements, obj an object of objectMappings
IsBracketAccess(node) ==
  /\ node.type = "MemberExpression"
  /\ node.computed
  /\ node.object.type = "Identifier"
  /\ node.object.name \in DOMAIN objectMappings
  /\ node.property.type = "Literal" /\ node.property.vtype = "string"

BracketReads ==
  {k \in 1..Len(ast.body) :
     /\ ast.body[k].type = "VariableDeclaration"
     /\ ~IsNull(ast.body[k].declarations[1].init)
     /\ IsBracketAccess(ast.body[k].declarations[1].init)}

BracketWrites ==
  {k \in 1..Len(ast.body) :
     /\ ast.body[k].type = "ExpressionStatement"
     /\ ast.body[k].expression.type = "AssignmentExpression"
     /\ IsBracketAccess(ast.body[k].expression.left)}

FlatNameOf(node) == node.object.name \o "_" \o node.property.str

\* C16: after a successful compilation, for obj in objectMappings a read
\* obj["prop"] is the input [3, [12, obj_prop, obj_prop], [10, ""]] of its
\* data_setvariableto, an assignment obj["prop"] = v is a data_setvariableto
\* on obj_prop, obj is no list, and no data_itemoflist or
\* data_replaceitemoflist block is emitted for it.
BracketAccessIsFlattened ==
  Compiled =>
    /\ \A k \in BracketReads :
         LET member == ast.body[k].declarations[1].init
         IN /\ \E id \in DOMAIN Emitted :
                 /\ Emitted[id].opcode = "data_setvariableto"
                 /\ Emitted[id].fields.VARIABLE[1] = NameOf(ast.body[k].declarations[1].id)
                 /\ Emitted[id].inputs.VALUE = VariableInput(FlatNameOf(member), 10, "")
            /\ member.object.name \notin DOMAIN result.project.lists
    /\ \A k \in BracketWrites :
         LET member == ast.body[k].expression.left
         IN /\ \E id \in DOMAIN Emitted :
                 /\ Emitted[id].opcode = "data_setvariableto"
                 /\ Emitted[id].fields.VARIABLE[1] = FlatNameOf(member)
            /\ member.object.name \notin DOMAIN result.project.lists
    /\ (BracketReads \cup BracketWrites # {}) =>
         \A id \in DOMAIN Emitted :
           Emitted[id].opcode \notin {"data_itemoflist", "data_replaceitemoflist"}

\* let obj = {a: 1}; let v = obj["a"]; made obj a list and the read a
\* data_itemoflist block
BracketReadBecameListItem ==
  /\ Compiled
  /\ source = <<23, 30>>
  /\ BracketReads = {2}
  /\ "obj" \in DOMAIN result.project.lists
  /\ \E id \in DOMAIN Emitted :
       /\ Emitted[id].opcode = "data_itemoflist"
       /\ Emitted[id].fields.LIST[1] = "obj"

\* the top-level declarations whose initializer is an object literal
ObjectDeclarations ==
  {k \in 1..Len(ast.body) :
     /\ ast.body[k].type = "VariableDeclaration"
     /\ ~IsNull(ast.body[k].declarations[1].init)
     /\ ast.body[k].declarations[1].init.type = "ObjectExpression"}

\* C17: after a successful compilation, for a declaration let obj = {...} the
\* name obj is no key of the sprite's variables and is in the VARIABLE field
\* of no emitted block, and every flattened name obj_prop is a key of the
\* variables.
ObjectBaseNameNotMaterialized ==
  Compiled =>
    \A k \in ObjectDeclarations :
      LET objName == NameOf(ast.body[k].declarations[1].id)
      IN /\ objName \notin DOMAIN result.project.variables
         /\ objName \notin VariableFieldNames
         /\ \A prop \in SeqRange(objectMappings[objName]) :
              (objName \o "_" \o prop) \in DOMAIN result.project.variables

\* let obj = {a: 1}; was compiled to a data_setvariableto on obj with the
\* value "0", and obj is a key of variables next to obj_a = 1
ObjectDeclarationEmitsSetVariable ==
  /\ Compiled
  /\ source = <<23>>
  /\ ObjectDeclarations = {1}
  /\ "obj" \in DOMAIN result.project.variables
  /\ result.project.variables["obj_a"] = 1
  /\ \E id \in DOMAIN Emitted :
       /\ Emitted[id].opcode = "data_setvariableto"
       /\ Emitted[id].fields.VARIABLE[1] = "obj"
       /\ Emitted[id].inputs.VALUE = ShadowInput(10, "0")

\* C18: after a successful compilation the sprite's visible flag is false
\* exactly when the block store holds a looks_say block.
InvisibleIffSayBlock ==
  Compiled =>
    (result.project.visible = FALSE
       <=> \E id \in DOMAIN Emitted : Emitted[id].opcode = "looks_say")

\* let x = 10; scratch_say("hi"); was compiled: a looks_say block follows the
\* data_setvariableto and the sprite is not visible
SayBlockHidesSprite ==
  /\ Compiled
  /\ source = <<1, 25>>
  /\ result.project.visible = FALSE
  /\ \E id \in DOMAIN Emitted :
       /\ Emitted[id].opcode = "looks_say"
       /\ Emitted[id].inputs.MESSAGE = ShadowInput(10, "hi")
       /\ Emitted[Emitted[id].parent].opcode = "data_setvariableto"

-----------------------------------------------------------------------------
(* transformCanvasToScratch.  A code string is the sequence of its lines,   *)
(* one statement per line; the returned string is the sequence of the lines *)
(* generateCode joins with "\n" (the empty string is the empty sequence).   *)

MaxLines == 3

\* the statements of the code strings, as written and as acorn parses them
CanvasStatements == <<
  [text |-> "const c = document.getElementById('c');",
   node |-> Let("c", CallExpression(
              MemberExpression(Identifier("document"), Identifier("getElementById"),
                               FALSE, Loc(1, 10)),
              <<StrLit("c")>>))],
  [text |-> "const ctx = c.getContext('2d');",
   node |-> Let("ctx", CallExpression(
              MemberExpression(Identifier("c"), Identifier("getContext"), FALSE, Loc(1, 12)),
              <<StrLit("2d")>>))],
  [text |-> "const g = canvas.getContext('2d');",
   node |-> Let("g", CallExpression(
              MemberExpression(Identifier("canvas"), Identifier("getContext"),
                               FALSE, Loc(1, 10)),
              <<StrLit("2d")>>))],
  [text |-> "ctx.fillStyle = 'black';",
   node |-> ExpressionStatement(AssignmentExpression("=",
              MemberExpression(Identifier("ctx"), Identifier("fillStyle"), FALSE, Loc(1, 0)),
              StrLit("black")))],
  [text |-> "ctx.strokeStyle = 'blue';",
   node |-> ExpressionStatement(AssignmentExpression("=",
              MemberExpression(Identifier("ctx"), Identifier("strokeStyle"), FALSE, Loc(1, 0)),
              StrLit("blue")))],
  [text |-> "g.lineWidth = 5;",
   node |-> ExpressionStatement(AssignmentExpression("=",
              MemberExpression(Identifier("g"), Identifier("lineWidth"), FALSE, Loc(1, 0)),
              NumLit(5)))],
  [text |-> "g.fillStyle = x;",
   node |-> ExpressionStatement(AssignmentExpression("=",
              MemberExpression(Identifier("g"), Identifier("fillStyle"), FALSE, Loc(1, 0)),
              x))],
  [text |-> "ctx.font = '30px Arial';",
   node |-> ExpressionStatement(AssignmentExpression("=",
              MemberExpression(Identifier("ctx"), Identifier("font"), FALSE, Loc(1, 0)),
              StrLit("30px Arial")))],
  [text |-> "ctx.fillText('Hello', 10, 20);",
   node |-> ExpressionStatement(CallExpression(
              MemberExpression(Identifier("ctx"), Identifier("fillText"), FALSE, Loc(1, 0)),
              <<StrLit("Hello"), NumLit(10), NumLit(20)>>))],
  [text |-> "x = x + 1;",
   node |-> Assign("x", BinaryExpression(x, "+", NumLit(1)))],
  [text |-> "let x = 10;",
   node |-> Let("x", NumLit(10))],
  [text |-> "this is not valid javascript {{{",
   node |-> SyntaxError]
>>

CanvasTexts == {CanvasStatements[k].text : k \in 1..Len(CanvasStatements)}

CanvasSources == UNION {[1..len -> CanvasTexts] : len \in 0..MaxLines}

\* the node acorn builds for one statement
StatementOf(text) ==
  CanvasStatements[CHOOSE k \in 1..Len(CanvasStatements) :
                     CanvasStatements[k].text = text].node

\* acorn.parse(code, ...) of transformCanvasToScratch
CanvasParses(code) ==
  \A k \in 1..Len(code) : StatementOf(code[k]).type # "SyntaxError"
canvasParse(code) == Program([k \in 1..Len(code) |-> StatementOf(code[k])])

\* decl.init is a call of a member: document.getElementById(...)
IsElementBinding(decl) ==
  /\ ~IsNull(decl.init)
  /\ decl.init.type = "CallExpression"
  /\ decl.init.callee.type = "MemberExpression"
  /\ NameOf(decl.init.callee.object) = "document"
  /\ NameOf(decl.init.callee.property) = "getElementById"

\* decl.init is <canvas variable>.getContext(...) or canvas.getContext(...)
IsContextBinding(decl, canvasVars) ==
  /\ ~IsNull(decl.init)
  /\ decl.init.type = "CallExpression"
  /\ decl.init.callee.type = "MemberExpression"
  /\ \/ NameOf(decl.init.callee.object) \in canvasVars
     \/ NameOf(decl.init.callee.object) = "canvas"
  /\ NameOf(decl.init.callee.property) = "getContext"

\* the two checks of identifyCanvasVars on one declarator; tab is
\* [canvasVars, canvasContextVars]
CanvasDeclarator(decl, tab) ==
  LET found == IF IsElementBinding(decl)
               THEN [tab EXCEPT !.canvasVars = @ \cup {NameOf(decl.id)}]
               ELSE tab
  IN IF IsContextBinding(decl, found.canvasVars)
     THEN [found EXCEPT !.canvasContextVars = @ \cup {NameOf(decl.id)}]
     ELSE found

RECURSIVE CanvasDeclarators(_, _, _)
CanvasDeclarators(decls, k, tab) ==
  IF k > Len(decls) THEN tab
  ELSE CanvasDeclarators(decls, k + 1, CanvasDeclarator(decls[k], tab))

RECURSIVE identifyCanvasVars(_, _)
RECURSIVE identifyCanvasVarsAll(_, _, _)
identifyCanvasVars(node, tab) ==
  IF IsNull(node) THEN tab
  ELSE identifyCanvasVarsAll(Children(node), 1,
         IF node.type = "VariableDeclaration"
         THEN CanvasDeclarators(node.declarations, 1, tab)
         ELSE tab)
identifyCanvasVarsAll(children, k, tab) ==
  IF k > Len(children) THEN tab
  ELSE identifyCanvasVarsAll(children, k + 1, identifyCanvasVars(children[k], tab))

\* right.value.match(/(\d+)px/) on the strings of the statements above:
\* parseInt of the digits before px, -1 when there is no match
sizeMatch(text) ==
  CASE text = "30px Arial" -> 30
    [] OTHER -> -1

\* the switch over the property of an assignment to a context variable
processProperty(property, right) ==
  CASE property = "fillStyle" -> Assign("scratch_pen_color", right)
    [] property = "font" ->
         IF right.type = "Literal" /\ right.vtype = "string" /\ sizeMatch(right.str) >= 0
         THEN Assign("scratch_text_size", NumLit(sizeMatch(right.str)))
         ELSE NullNode
    [] property \in {"textAlign", "textBaseline"} -> NullNode
    [] OTHER -> NullNode

\* the switch over the method of a call on a context variable
processMethod(method, args) ==
  CASE method \in {"fillText", "strokeText"} ->
         IF Len(args) >= 1
         THEN ExpressionStatement(CallExpression(Identifier("scratch_say"), args))
         ELSE NullNode
    [] OTHER -> NullNode

\* processNode: the statement that replaces node, null when it is removed
processNode(node, tab) ==
  IF IsNull(node) THEN NullNode
  ELSE IF /\ node.type = "VariableDeclaration"
          /\ \E k \in 1..Len(node.declarations) :
               \/ IsElementBinding(node.declarations[k])
               \/ IsContextBinding(node.declarations[k], tab.canvasVars)
  THEN NullNode
  ELSE IF /\ node.type = "ExpressionStatement"
          /\ node.expression.type = "AssignmentExpression"
          /\ node.expression.left.type = "MemberExpression"
          /\ NameOf(node.expression.left.object) \in tab.canvasContextVars
  THEN processProperty(NameOf(node.expression.left.property), node.expression.right)
  ELSE IF /\ node.type = "ExpressionStatement"
          /\ node.expression.type = "CallExpression"
          /\ node.expression.callee.type = "MemberExpression"
          /\ NameOf(node.expression.callee.object) \in tab.canvasContextVars
  THEN processMethod(NameOf(node.expression.callee.property), node.expression.arguments)
  ELSE node

\* for (const stmt of ast.body): the statements processNode kept, from k on
RECURSIVE transformedStatements(_, _, _)
transformedStatements(body, k, tab) ==
  IF k > Len(body) THEN <<>>
  ELSE IF IsNull(processNode(body[k], tab))
       THEN transformedStatements(body, k + 1, tab)
       ELSE <<processNode(body[k], tab)>> \o transformedStatements(body, k + 1, tab)

RECURSIVE generateExpression(_)
generateExpression(node) ==
  IF IsNull(node) THEN ""
  ELSE
  CASE node.type = "Identifier" -> node.name
    [] node.type = "Literal" ->
         IF node.vtype = "string" THEN "'" \o node.str \o "'" ELSE StringOf(node)
    [] node.type = "BinaryExpression" ->
         generateExpression(node.left) \o " " \o node.operator \o " "
           \o generateExpression(node.right)
    [] node.type = "MemberExpression" ->
         generateExpression(node.object) \o
           (IF node.computed THEN "[" \o generateExpression(node.property) \o "]"
            ELSE "." \o NameOf(node.property))
    [] OTHER -> ""

\* expr.arguments.map(generateExpression).join(', '), from argument k on
RECURSIVE generateArguments(_, _)
generateArguments(args, k) ==
  IF k > Len(args) THEN ""
  ELSE (IF k > 1 THEN ", " ELSE "") \o generateExpression(args[k])
         \o generateArguments(args, k + 1)

\* generateCode: the lines, from statement k on
RECURSIVE generateCode(_, _)
generateCode(statements, k) ==
  IF k > Len(statements) THEN <<>>
  ELSE (IF statements[k].type # "ExpressionStatement" THEN <<>>
        ELSE IF statements[k].expression.type = "AssignmentExpression"
        THEN <<generateExpression(statements[k].expression.left) \o " = "
                 \o generateExpression(statements[k].expression.right) \o ";">>
        ELSE IF statements[k].expression.type = "CallExpression"
        THEN <<generateExpression(statements[k].expression.callee) \o "("
                 \o generateArguments(statements[k].expression.arguments, 1) \o ");">>
        ELSE <<>>)
       \o generateCode(statements, k + 1)

\* transformParsed without the return of the original code
transformParsedAlways(code, tree, tab) ==
  generateCode(transformedStatements(tree.body, 1, tab), 1)

\* the part of transformCanvasToScratch after identifyCanvasVars(ast)
transformParsed(code, tree, tab) ==
  IF tab.canvasContextVars = {} /\ tab.canvasVars = {} THEN code
  ELSE generateCode(transformedStatements(tree.body, 1, tab), 1)

transformCanvasToScratch(code) ==
  IF ~CanvasParses(code) THEN code
  ELSE transformParsed(code, canvasParse(code),
         identifyCanvasVars(canvasParse(code),
                            [canvasVars |-> {}, canvasContextVars |-> {}]))

CanvasInit ==
  /\ pc = "canvas"
  /\ source = <<>>
  /\ ast = NullNode
  /\ functionDefinitions = <<>>
  /\ variables = {}
  /\ lists = {}
  /\ objectMappings = <<>>
  /\ recursiveFunctions = {}
  /\ blocks = <<>>
  /\ blockIdCounter = 0
  /\ result = NoResult
  /\ thrown = NoError
  /\ encodeExpr = NullNode
  /\ encoded = NullInput
  /\ canvasCode \in CanvasSources
  /\ transformed = <<>>
  /\ CliIdle

TransformCanvas ==
  /\ pc = "canvas"
  /\ transformed' = transformCanvasToScratch(canvasCode)
  /\ pc' = "transformed"
  /\ UNCHANGED <<source, ast, functionDefinitions, variables, lists, objectMappings,
                 recursiveFunctions, blocks, blockIdCounter, result, thrown,
                 encodeExpr, encoded, canvasCode>>
  /\ UNCHANGED cliVars

CanvasNext == TransformCanvas

CanvasSpec == CanvasInit /\ [][CanvasNext]_vars

-----------------------------------------------------------------------------
(* Claims about transformCanvasToScratch, checked under CanvasSpec.          *)

Transformed == pc = "transformed"

\* the declarators of the top-level declarations of a code string that
\* parses, as pairs <<statement, declarator>>
TopLevelDeclarators(code) ==
  UNION {{<<k, d>> : d \in 1..Len(StatementOf(code[k]).declarations)} :
           k \in {j \in 1..Len(code) : StatementOf(code[j]).type = "VariableDeclaration"}}

DeclaratorAt(code, kd) == StatementOf(code[kd[1]]).declarations[kd[2]]

\* the names bound to document.getElementById(...)
ElementBindings(code) ==
  {NameOf(DeclaratorAt(code, kd).id) :
     kd \in {p \in TopLevelDeclarators(code) : IsElementBinding(DeclaratorAt(code, p))}}

\* the names bound to <element binding>.getContext(...) or canvas.getContext(...)
ContextBindings(code) ==
  {NameOf(DeclaratorAt(code, kd).id) :
     kd \in {p \in TopLevelDeclarators(code) :
               IsContextBinding(DeclaratorAt(code, p), ElementBindings(code))}}

\* C19: transformCanvasToScratch returns its input unchanged when the input
\* does not parse, and when the program has no canvas-element binding and no
\* canvas-context binding.
UnparsedOrPlainCodeUnchanged ==
  (Transformed /\ (~CanvasParses(canvasCode)
                   \/ (ElementBindings(canvasCode) = {} /\ ContextBindings(canvasCode) = {})))
    => transformed = canvasCode

\* let x = 10; x = x + 1; ctx.fillStyle = 'black'; has no binding and came
\* back as it was
PlainCodeReturned ==
  /\ Transformed
  /\ canvasCode = <<"let x = 10;", "x = x + 1;", "ctx.fillStyle = 'black';">>
  /\ CanvasParses(canvasCode)
  /\ transformed = canvasCode

\* the context variables identifyCanvasVars finds in a code string
ContextVarsOf(code) ==
  identifyCanvasVars(canvasParse(code),
                     [canvasVars |-> {}, canvasContextVars |-> {}]).canvasContextVars

\* statement k of the code assigns to property of a context variable
AssignsContextProperty(code, k, property) ==
  /\ StatementOf(code[k]).type = "ExpressionStatement"
  /\ StatementOf(code[k]).expression.type = "AssignmentExpression"
  /\ StatementOf(code[k]).expression.left.type = "MemberExpression"
  /\ NameOf(StatementOf(code[k]).expression.left.object) \in ContextVarsOf(code)
  /\ NameOf(StatementOf(code[k]).expression.left.property) = property

\* the returned string has the line `target = E;` for the right side E of
\* statement k
HasRewrittenLine(code, k, target) ==
  \E j \in 1..Len(transformed) :
    transformed[j] =
      target \o " = " \o generateExpression(StatementOf(code[k]).expression.right) \o ";"

\* C20: for a context variable ctx, ctx.strokeStyle = E is rewritten to
\* scratch_stroke_color = E and ctx.lineWidth = E to scratch_line_width = E,
\* as ctx.fillStyle = E is rewritten to scratch_pen_color = E.
StrokeStyleAndLineWidthRewritten ==
  (Transformed /\ CanvasParses(canvasCode)) =>
    \A k \in 1..Len(canvasCode) :
      /\ AssignsContextProperty(canvasCode, k, "fillStyle")
           => HasRewrittenLine(canvasCode, k, "scratch_pen_color")
      /\ AssignsContextProperty(canvasCode, k, "strokeStyle")
           => HasRewrittenLine(canvasCode, k, "scratch_stroke_color")
      /\ AssignsContextProperty(canvasCode, k, "lineWidth")
           => HasRewrittenLine(canvasCode, k, "scratch_line_width")

\* after const g = canvas.getContext('2d'); the statement g.fillStyle = x; was
\* rewritten and g.lineWidth = 5; was removed
LineWidthRemoved ==
  /\ Transformed
  /\ canvasCode = <<"const g = canvas.getContext('2d');", "g.fillStyle = x;",
                    "g.lineWidth = 5;">>
  /\ AssignsContextProperty(canvasCode, 3, "lineWidth")
  /\ transformed = <<"scratch_pen_color = x;">>

-----------------------------------------------------------------------------
(* The translate command of the CLI: one run, from the action's entry to    *)
(* the end of the process.  cliInput is what the run meets: the kind of the *)
(* input file, what the archive holds, how translateToScratch and the       *)
(* packaging end, and the directories fs.rm fails on.                       *)

\* path.join('/tmp', `js-to-scratch-${uniqueId}`) of extractZipToTemp
ExtractDir == "js-to-scratch-uuid"
\* path.join(path.dirname(outputPath), `.scratch-temp-${uniqueId}`)
StagingDir == ".scratch-temp-uuid"
TempDirs == {ExtractDir, StagingDir}

CliInputs ==
  [file : {"missing", "js", "html", "htmlWithoutScript", "zip"},
   archive : {"corrupt", "empty", "js", "html"},
   translation : {"ok", "parseError", "unsupported"},
   packaging : {"ok", "mkdirFails", "zipFails"},
   undeletable : SUBSET TempDirs]

\* fs.promises.rm(dir, {recursive: true, force: true}): the directories left;
\* dir stays when rm throws
Remove(dirs, dir) == IF dir \in cliInput.undeletable THEN dirs ELSE dirs \ {dir}

\* process.exit(code): the process ends where it stands
ProcessExit(code) ==
  /\ pc' = "exited"
  /\ exitCode' = code

CliInit ==
  /\ pc = "cli"
  /\ source = <<>>
  /\ ast = NullNode
  /\ functionDefinitions = <<>>
  /\ variables = {}
  /\ lists = {}
  /\ objectMappings = <<>>
  /\ recursiveFunctions = {}
  /\ blocks = <<>>
  /\ blockIdCounter = 0
  /\ result = NoResult
  /\ thrown = NoError
  /\ encodeExpr = NullNode
  /\ encoded = NullInput
  /\ canvasCode = <<>>
  /\ transformed = <<>>
  /\ cliInput \in CliInputs
  /\ tempDir = Null
  /\ existing = {}
  /\ exitCode = -1

CliFrame ==
  UNCHANGED <<source, ast, functionDefinitions, variables, lists, objectMappings,
              recursiveFunctions, blocks, blockIdCounter, result, thrown,
              encodeExpr, encoded, canvasCode, transformed, cliInput>>

\* the input file is looked up and, unless it is a zip, read
CliOpen ==
  /\ pc = "cli"
  /\ IF cliInput.file \in {"missing", "htmlWithoutScript"} THEN ProcessExit(1)
     ELSE IF cliInput.file = "zip" THEN pc' = "extract" /\ UNCHANGED exitCode
     ELSE pc' = "translate" /\ UNCHANGED exitCode
  /\ UNCHANGED <<tempDir, existing>>
  /\ CliFrame

\* extractZipToTemp: the directory is made; when the archive cannot be read it
\* is removed and the error reaches the catch of the action, which exits
ExtractZip ==
  /\ pc = "extract"
  /\ IF cliInput.archive = "corrupt"
     THEN /\ existing' = Remove(existing \cup {ExtractDir}, ExtractDir)
          /\ ProcessExit(1)
          /\ UNCHANGED tempDir
     ELSE /\ existing' = existing \cup {ExtractDir}
          /\ tempDir' = ExtractDir
          /\ pc' = "extracted"
          /\ UNCHANGED exitCode
  /\ CliFrame

\* files.js.length === 0 && files.html.length === 0
CheckArchive ==
  /\ pc = "extracted"
  /\ IF cliInput.archive = "empty" THEN ProcessExit(1)
     ELSE pc' = "translate" /\ UNCHANGED exitCode
  /\ UNCHANGED <<tempDir, existing>>
  /\ CliFrame

\* transformCanvasToScratch and translateToScratch; what translateToScratch
\* throws reaches the catch, which exits
CliTranslate ==
  /\ pc = "translate"
  /\ IF cliInput.translation = "ok" THEN pc' = "package" /\ UNCHANGED exitCode
     ELSE ProcessExit(1)
  /\ UNCHANGED <<tempDir, existing>>
  /\ CliFrame

\* createSB3File; what it throws reaches the catch, which exits
CreateSB3File ==
  /\ pc = "package"
  /\ CASE cliInput.packaging = "mkdirFails" ->
            /\ UNCHANGED existing
            /\ ProcessExit(1)
       [] cliInput.packaging = "zipFails" ->
            /\ existing' = Remove(existing \cup {StagingDir}, StagingDir)
            /\ ProcessExit(1)
       [] OTHER ->
            IF StagingDir \in cliInput.undeletable
            THEN /\ existing' = existing \cup {StagingDir}
                 /\ ProcessExit(1)
            ELSE /\ UNCHANGED existing
                 /\ pc' = "finally"
                 /\ UNCHANGED exitCode
  /\ UNCHANGED tempDir
  /\ CliFrame

\* the finally block of the action, reached when the try block completes
CliFinally ==
  /\ pc = "finally"
  /\ existing' = IF tempDir # Null THEN Remove(existing, tempDir) ELSE existing
  /\ ProcessExit(0)
  /\ UNCHANGED tempDir
  /\ CliFrame

CliNext ==
  \/ CliOpen
  \/ ExtractZip
  \/ CheckArchive
  \/ CliTranslate
  \/ CreateSB3File
  \/ CliFinally

CliSpec == CliInit /\ [][CliNext]_vars

-----------------------------------------------------------------------------
(* Claims about the translate command, checked under CliSpec.               *)

Exited == pc = "exited"

\* the run meets nothing that makes it fail, whatever fs.rm does
RunCanSucceed ==
  /\ cliInput.file \in {"js", "html", "zip"}
  /\ cliInput.file = "zip" => cliInput.archive \in {"js", "html"}
  /\ cliInput.translation = "ok"
  /\ cliInput.packaging = "ok"

\* C21: when the run has ended no temporary directory exists but one whose
\* deletion failed, on the success path and on every failure path, and a
\* failed deletion does not change the outcome of the run.
TempDirsGoneAtExit ==
  Exited =>
    /\ existing \subseteq cliInput.undeletable
    /\ exitCode = 0 <=> RunCanSucceed

\* a zip archive without .js or .html ended the run with exit code 1 and the
\* extraction directory, which can be deleted, is still there
ExtractDirLeftAfterEmptyArchive ==
  /\ Exited
  /\ cliInput.file = "zip" /\ cliInput.archive = "empty"
  /\ cliInput.undeletable = {}
  /\ exitCode = 1
  /\ tempDir = ExtractDir
  /\ existing = {ExtractDir}

-----------------------------------------------------------------------------
(* Properties of the control blocks of a finished compilation, checked      *)
(* under Spec.                                                              *)

\* name = ...; as a statement
IsAssignStatement(stmt) ==
  /\ stmt.type = "ExpressionStatement"
  /\ stmt.expression.type = "AssignmentExpression"
  /\ stmt.expression.left.type = "Identifier"

\* the top-level if, while and for statements whose body is a block of one or
\* more assignments name = ...;, each of which emits a data_setvariableto
BodyOf(stmt) == IF stmt.type = "IfStatement" THEN stmt.consequent ELSE stmt.body

LoopsWithBlockBody ==
  {k \in 1..Len(ast.body) :
     /\ ast.body[k].type \in {"IfStatement", "WhileStatement", "ForStatement"}
     /\ ~IsNull(BodyOf(ast.body[k]))
     /\ BodyOf(ast.body[k]).type = "BlockStatement"
     /\ Len(BodyOf(ast.body[k]).body) >= 1
     /\ \A j \in 1..Len(BodyOf(ast.body[k]).body) :
          IsAssignStatement(BodyOf(ast.body[k]).body[j])}

\* the variables the body of statement k assigns, in order
BodyTargets(k) ==
  [j \in 1..Len(BodyOf(ast.body[k]).body) |->
     BodyOf(ast.body[k]).body[j].expression.left.name]

\* the VARIABLE names of the blocks on the next chain that starts at id, at
\* most fuel of them ("" for a block without VARIABLE field)
RECURSIVE ChainTargets(_, _, _)
ChainTargets(blks, id, fuel) ==
  IF fuel = 0 \/ id \notin DOMAIN blks THEN <<>>
  ELSE <<IF "VARIABLE" \in DOMAIN blks[id].fields THEN blks[id].fields.VARIABLE[1] ELSE "">>
         \o ChainTargets(blks, blks[id].next, fuel - 1)

ControlOpcodes(stmt) ==
  IF stmt.type = "IfStatement" THEN {"control_if"}
  ELSE {"control_repeat_until", "control_repeat"}

\* C22: after a successful compilation, for every if, while and for statement
\* whose body is a block of block-emitting statements, the SUBSTACK of its
\* control block is [2, id] with id the block of the first statement of the
\* body, and the blocks of the other statements follow on its next chain in
\* order.
SubstackStartsAtFirstStatement ==
  Compiled =>
    \A k \in LoopsWithBlockBody :
      \E id \in DOMAIN Emitted :
        /\ Emitted[id].opcode \in ControlOpcodes(ast.body[k])
        /\ "SUBSTACK" \in DOMAIN Emitted[id].inputs
        /\ Emitted[id].inputs.SUBSTACK.kind = "block"
        /\ Len(ChainTargets(Emitted, Emitted[id].inputs.SUBSTACK.block,
                            Cardinality(DOMAIN Emitted))) >= Len(BodyTargets(k))
        /\ SubSeq(ChainTargets(Emitted, Emitted[id].inputs.SUBSTACK.block,
                               Cardinality(DOMAIN Emitted)),
                  1, Len(BodyTargets(k))) = BodyTargets(k)

\* if (x < 5) { x = x + 1; y = 2; } was compiled to a control_if whose
\* SUBSTACK is the block of y = 2, the last statement, which has no next
SubstackIsLastStatement ==
  /\ Compiled
  /\ source = <<5>>
  /\ LoopsWithBlockBody = {1}
  /\ BodyTargets(1) = <<"x", "y">>
  /\ \E id \in DOMAIN Emitted :
       /\ Emitted[id].opcode = "control_if"
       /\ Emitted[id].inputs.SUBSTACK.kind = "block"
       /\ Emitted[Emitted[id].inputs.SUBSTACK.block].fields.VARIABLE[1] = "y"
       /\ Emitted[Emitted[id].inputs.SUBSTACK.block].next = Null

\* the top-level for statements lowered by the simple branch:
\* for (let i = start; i < end or i <= end; i++ or i += 1)
SimpleForStatements ==
  {k \in 1..Len(ast.body) :
     /\ ast.body[k].type = "ForStatement"
     /\ analyzeForLoop(ast.body[k], {}).type = "simple"
     /\ analyzeForLoop(ast.body[k], {}).initVar # Null
     /\ ~IsNull(analyzeForLoop(ast.body[k], {}).condition)
     /\ analyzeForLoop(ast.body[k], {}).condition.operator \in {"<", "<="}}

\* C23: after a successful compilation, for every simple for statement the
\* data_setvariableto block that initializes the loop variable has the
\* control_repeat block as its next.
InitBlockLeadsToRepeat ==
  Compiled =>
    \A k \in SimpleForStatements :
      \E id \in DOMAIN Emitted :
        /\ Emitted[id].opcode = "data_setvariableto"
        /\ Emitted[id].fields.VARIABLE[1] = analyzeForLoop(ast.body[k], {}).initVar
        /\ Emitted[id].next \in DOMAIN Emitted
        /\ Emitted[Emitted[id].next].opcode = "control_repeat"

\* for (let i = 0; i < 3; i++) { x = i; } alone: the next of the init block is
\* the control_stop, and the control_repeat, whose parent is the init block,
\* is the next of no block
RepeatBlockOffTheChain ==
  /\ Compiled
  /\ source = <<8>>
  /\ SimpleForStatements = {1}
  /\ \E init \in DOMAIN Emitted, repeat \in DOMAIN Emitted :
       /\ Emitted[init].opcode = "data_setvariableto"
       /\ Emitted[init].fields.VARIABLE[1] = "i"
       /\ Emitted[Emitted[init].next].opcode = "control_stop"
       /\ Emitted[repeat].opcode = "control_repeat"
       /\ Emitted[repeat].parent = init
       /\ \A id \in DOMAIN Emitted : Emitted[id].next # repeat

\* the top-level for statements lowered by convertComplexForLoop that have an
\* update and a body that is a block of one or more assignments
ComplexForStatements ==
  {k \in LoopsWithBlockBody :
     /\ ast.body[k].type = "ForStatement"
     /\ analyzeForLoop(ast.body[k], {}).type = "complex"
     /\ ~IsNull(ast.body[k].update)}

\* the variable the update of for statement k changes
UpdateTarget(k) ==
  IF ast.body[k].update.type = "UpdateExpression"
  THEN ast.body[k].update.argument.name
  ELSE ast.body[k].update.left.name

\* C24: after a successful compilation, for every for statement that is not
\* simple, the SUBSTACK of a control_repeat_until block is the chain of the
\* blocks of the body statements, in order, followed by the block of the
\* update, whether the update is i++, i += n or i = i + n.
SubstackIsBodyThenUpdate ==
  Compiled =>
    \A k \in ComplexForStatements :
      \E id \in DOMAIN Emitted :
        /\ Emitted[id].opcode = "control_repeat_until"
        /\ "SUBSTACK" \in DOMAIN Emitted[id].inputs
        /\ Emitted[id].inputs.SUBSTACK.kind = "block"
        /\ ChainTargets(Emitted, Emitted[id].inputs.SUBSTACK.block,
                        Cardinality(DOMAIN Emitted))
             = BodyTargets(k) \o <<UpdateTarget(k)>>

\* for (let i = 0; x < 10; i++) { x = x + 1; } alone: the SUBSTACK of the
\* control_repeat_until is the block of x = x + 1, which has no next, and the
\* only block that sets i is the one of the init
UpdateDroppedFromSubstack ==
  /\ Compiled
  /\ source = <<32>>
  /\ ComplexForStatements = {1}
  /\ UpdateTarget(1) = "i"
  /\ \E id \in DOMAIN Emitted :
       /\ Emitted[id].opcode = "control_repeat_until"
       /\ Emitted[id].inputs.SUBSTACK.kind = "block"
       /\ ChainTargets(Emitted, Emitted[id].inputs.SUBSTACK.block,
                       Cardinality(DOMAIN Emitted)) = <<"x">>
  /\ Cardinality({id \in DOMAIN Emitted :
                    /\ "VARIABLE" \in DOMAIN Emitted[id].fields
                    /\ Emitted[id].fields.VARIABLE[1] = "i"}) = 1

\* the same property for the updates i = i + n after a body of one statement
\* (for (let i = 0; i < 10; i = i + 2) { x = i; })
PlainAssignmentUpdateKept ==
  (Compiled /\ source = <<34>>) =>
    /\ ComplexForStatements = {1}
    /\ SubstackIsBodyThenUpdate

\* the top-level statements while (a < b) ... with a an identifier and b a
\* literal
WhileLessThanStatements ==
  {k \in 1..Len(ast.body) :
     /\ ast.body[k].type = "WhileStatement"
     /\ ast.body[k].test.type = "BinaryExpression"
     /\ ast.body[k].test.operator = "<"
     /\ ast.body[k].test.left.type = "Identifier"
     /\ ast.body[k].test.right.type = "Literal"}

\* the block compares the identifier left with the literal right
ComparesOperands(block, left, right) ==
  /\ DOMAIN block.inputs = {"OPERAND1", "OPERAND2"}
  /\ block.inputs.OPERAND1.kind = "variable"
  /\ block.inputs.OPERAND1.name = left.name
  /\ block.inputs.OPERAND2.kind = "shadow"
  /\ block.inputs.OPERAND2.shadow[2] = StringOf(right)

\* C25: after a successful compilation, for every statement while (a < b)
\* with a an identifier and b a literal, the CONDITION of a
\* control_repeat_until block refers to an operator_gt block that compares a
\* and b.
WhileConditionIsGreaterThan ==
  Compiled =>
    \A k \in WhileLessThanStatements :
      \E id \in DOMAIN Emitted :
        /\ Emitted[id].opcode = "control_repeat_until"
        /\ Emitted[id].inputs.CONDITION.kind = "block"
        /\ Emitted[id].inputs.CONDITION.block \in DOMAIN Emitted
        /\ Emitted[Emitted[id].inputs.CONDITION.block].opcode = "operator_gt"
        /\ ComparesOperands(Emitted[Emitted[id].inputs.CONDITION.block],
                            ast.body[k].test.left, ast.body[k].test.right)

\* while (x < 5) { x = x + 1; } alone: the CONDITION refers to an operator_not
\* whose OPERAND is the operator_lt block comparing x and 5, and no
\* operator_gt block exists
WhileConditionIsNotOverLessThan ==
  /\ Compiled
  /\ source = <<7>>
  /\ WhileLessThanStatements = {1}
  /\ \E id \in DOMAIN Emitted :
       /\ Emitted[id].opcode = "control_repeat_until"
       /\ Emitted[Emitted[id].inputs.CONDITION.block].opcode = "operator_not"
       /\ Emitted[Emitted[Emitted[id].inputs.CONDITION.block].inputs.OPERAND.block].opcode
            = "operator_lt"
       /\ ComparesOperands(
            Emitted[Emitted[Emitted[id].inputs.CONDITION.block].inputs.OPERAND.block],
            x, NumLit(5))
  /\ \A id \in DOMAIN Emitted : Emitted[id].opcode # "operator_gt"

\* C25 as amended: after a successful compilation, for every statement
\* while (a < b) with a an identifier and b a literal, the CONDITION of a
\* control_repeat_until block refers to an operator_not block whose OPERAND
\* refers to an operator_lt block that compares a and b.
WhileConditionIsNotLessThan ==
  Compiled =>
    \A k \in WhileLessThanStatements :
      \E id \in DOMAIN Emitted :
        /\ Emitted[id].opcode = "control_repeat_until"
        /\ Emitted[id].inputs.CONDITION.kind = "block"
        /\ Emitted[id].inputs.CONDITION.block \in DOMAIN Emitted
        /\ Emitted[Emitted[id].inputs.CONDITION.block].opcode = "operator_not"
        /\ Emitted[Emitted[id].inputs.CONDITION.block].inputs.OPERAND.kind = "block"
        /\ Emitted[Emitted[id].inputs.CONDITION.block].inputs.OPERAND.block
             \in DOMAIN Emitted
        /\ Emitted[Emitted[Emitted[id].inputs.CONDITION.block].inputs.OPERAND.block].opcode
             = "operator_lt"
        /\ ComparesOperands(
             Emitted[Emitted[Emitted[id].inputs.CONDITION.block].inputs.OPERAND.block],
             ast.body[k].test.left, ast.body[k].test.right)

\* the calls of EncodeSpec that pass fewer arguments than the callee has
\* parameters
HasMissingArguments ==
  /\ encodeExpr.type = "CallExpression"
  /\ encodeExpr.callee.type = "Identifier"
  /\ encodeExpr.callee.name \in DOMAIN functionDefinitions
  /\ Len(encodeExpr.arguments)
       < Len(functionDefinitions[encodeExpr.callee.name].params)

\* C26: a call that passes fewer arguments than the callee has parameters has
\* the numeric shadow [1, [4, "0"]] in the slot the missing parameter's value
\* ends up in: NUM2 of the operator_add for add(x), OPERAND2 of the
\* operator_lt for lt(x), the input n of the procedures_call for fact(), the
\* returned input itself for h().
MissingArgumentIsZeroShadow ==
  (Encoded /\ HasMissingArguments) =>
     CASE encodeExpr.callee.name = "add" ->
            /\ blocks[encoded.block].opcode = "operator_add"
            /\ blocks[encoded.block].inputs.NUM2 = ShadowInput(4, "0")
       [] encodeExpr.callee.name = "lt" ->
            /\ blocks[encoded.block].opcode = "operator_lt"
            /\ blocks[encoded.block].inputs.OPERAND2 = ShadowInput(4, "0")
       [] encodeExpr.callee.name = "fact" ->
            /\ blocks[encoded.block].opcode = "procedures_call"
            /\ blocks[encoded.block].inputs["n"] = ShadowInput(4, "0")
       [] OTHER -> encoded = ShadowInput(4, "0")

\* lt(x) was encoded with const lt = (a, b) => a < b: the operator_lt block
\* has the text shadow [1, [10, "0"]] in OPERAND2
MissingComparisonOperandIsTextShadow ==
  /\ Encoded
  /\ HasMissingArguments
  /\ encodeExpr = CallExpression(Identifier("lt"), <<x>>)
  /\ blocks[encoded.block].opcode = "operator_lt"
  /\ blocks[encoded.block].inputs.OPERAND1 = ReporterInput("x")
  /\ blocks[encoded.block].inputs.OPERAND2 = ShadowInput(10, "0")

\* the same property for the calls other than lt(x)
MissingArgumentElsewhereIsZeroShadow ==
  (encodeExpr.type = "CallExpression" /\ encodeExpr.callee.name # "lt")
    => MissingArgumentIsZeroShadow

\* the blocks the block id leads to: its next and the blocks its inputs refer to
LinkedBlocks(blks, id) ==
  ({blks[id].next} \cup {blks[id].inputs[name].block : name \in BlockOperands(blks[id])})
    \cap DOMAIN blks

\* the blocks reached from the set seen in at most fuel steps along next links
\* and input block references
RECURSIVE ReachableFrom(_, _, _)
ReachableFrom(blks, seen, fuel) ==
  IF fuel = 0 THEN seen
  ELSE ReachableFrom(blks, seen \cup UNION {LinkedBlocks(blks, id) : id \in seen}, fuel - 1)

HatBlocks == {id \in DOMAIN Emitted : Emitted[id].opcode = "event_whenflagclicked"}

\* C27: after a successful compilation every block with a parent p is the next
\* of p or is referenced by one of the inputs of p, and every block is reached
\* from the event_whenflagclicked root along next links and input references.
EveryBlockAttachedToParent ==
  Compiled =>
    /\ \A id \in DOMAIN Emitted :
         Emitted[id].parent # Null =>
           /\ Emitted[id].parent \in DOMAIN Emitted
           /\ id \in LinkedBlocks(Emitted, Emitted[id].parent)
    /\ ReachableFrom(Emitted, HatBlocks, Cardinality(DOMAIN Emitted)) = DOMAIN Emitted

\* let x = 10; for (let i = 0; i < 3; i++) { x = i; }: the control_repeat has
\* the init block of i as parent, is neither its next nor one of its inputs,
\* and is not reached from the root
RepeatBlockUnreachableFromRoot ==
  /\ Compiled
  /\ source = <<1, 8>>
  /\ \E id \in DOMAIN Emitted :
       /\ Emitted[id].opcode = "control_repeat"
       /\ Emitted[id].parent \in DOMAIN Emitted
       /\ Emitted[Emitted[id].parent].opcode = "data_setvariableto"
       /\ id \notin LinkedBlocks(Emitted, Emitted[id].parent)
       /\ id \notin ReachableFrom(Emitted, HatBlocks, Cardinality(DOMAIN Emitted))

ListFieldNames ==
  {Emitted[id].fields.LIST[1] :
     id \in {b \in DOMAIN Emitted : "LIST" \in DOMAIN Emitted[b].fields}}

\* C28: after a successful compilation every name in the VARIABLE field of an
\* emitted block is a key of the sprite's variables and every name in a LIST
\* field is a key of the sprite's lists.
FieldNamesAreDeclared ==
  Compiled =>
    /\ VariableFieldNames \subseteq DOMAIN result.project.variables
    /\ ListFieldNames \subseteq DOMAIN result.project.lists

\* let a = 1, b = 2; const add = (a, b) => a + b; was compiled: a block sets
\* the variable a, which shares its name with a parameter of add and is no
\* key of the sprite's variables
ParameterNamedVariableUndeclared ==
  /\ Compiled
  /\ source = <<3, 15>>
  /\ "a" \in VariableFieldNames
  /\ "a" \in AllParamNames(functionDefinitions)
  /\ "a" \notin DOMAIN result.project.variables

\* the calls of EncodeSpec to a function that is defined and is not in
\* recursiveFunctions
CallsInlinedFunction ==
  /\ encodeExpr.type = "CallExpression"
  /\ encodeExpr.callee.type = "Identifier"
  /\ encodeExpr.callee.name \in DOMAIN functionDefinitions \ recursiveFunctions

\* C29: the encoding of a call to a function that is not in
\* recursiveFunctions ends with the inlining complete, that is, it returns an
\* input, also when the functions call each other mutually.
InliningTerminates ==
  (CallsInlinedFunction /\ pc # "encode") => Encoded

\* ping(1) with function ping(n) { return pong(n); } and
\* function pong(n) { return ping(n); }: neither function is in
\* recursiveFunctions, and the inlining ends when the call stack is exhausted
MutualRecursionExhaustsStack ==
  /\ pc = "thrown"
  /\ encodeExpr = CallExpression(Identifier("ping"), <<NumLit(1)>>)
  /\ {"ping", "pong"} \subseteq DOMAIN functionDefinitions \ recursiveFunctions
  /\ thrown.message = "Maximum call stack size exceeded"

\* the same property for the calls to the functions that do not call each
\* other (add, lt, h)
InliningOfPlainFunctionsTerminates ==
  (encodeExpr.type = "CallExpression" /\ encodeExpr.callee.name \notin {"ping", "pong"})
    => InliningTerminates

\* the names bound to a canvas element or to a canvas context
CanvasBindings(code) == ElementBindings(code) \cup ContextBindings(code)

\* statement k of the code is a canvas statement: a declaration with a canvas
\* binding, or an assignment whose target, or a call whose receiver, is a
\* member of a canvas binding
IsCanvasStatement(code, k) ==
  LET stmt == StatementOf(code[k])
  IN \/ /\ stmt.type = "VariableDeclaration"
        /\ \E d \in 1..Len(stmt.declarations) :
             \/ IsElementBinding(stmt.declarations[d])
             \/ IsContextBinding(stmt.declarations[d], ElementBindings(code))
     \/ /\ stmt.type = "ExpressionStatement"
        /\ stmt.expression.type = "AssignmentExpression"
        /\ stmt.expression.left.type = "MemberExpression"
        /\ NameOf(stmt.expression.left.object) \in CanvasBindings(code)
     \/ /\ stmt.type = "ExpressionStatement"
        /\ stmt.expression.type = "CallExpression"
        /\ stmt.expression.callee.type = "MemberExpression"
        /\ NameOf(stmt.expression.callee.object) \in CanvasBindings(code)

\* the statements of the code from position k on that are no canvas statements
RECURSIVE NonCanvasLines(_, _)
NonCanvasLines(code, k) ==
  IF k > Len(code) THEN <<>>
  ELSE IF IsCanvasStatement(code, k) THEN NonCanvasLines(code, k + 1)
  ELSE <<code[k]>> \o NonCanvasLines(code, k + 1)

\* the lines of s occur in t in the same order (from line j of s, line k of t)
RECURSIVE OccurInOrder(_, _, _, _)
OccurInOrder(s, t, j, k) ==
  IF j > Len(s) THEN TRUE
  ELSE IF k > Len(t) THEN FALSE
  ELSE IF s[j] = t[k] THEN OccurInOrder(s, t, j + 1, k + 1)
  ELSE OccurInOrder(s, t, j, k + 1)

\* C30: when the program has a canvas binding, every top-level statement that
\* is no canvas statement is in the output of transformCanvasToScratch,
\* unchanged and in the original order.
NonCanvasStatementsPreserved ==
  (Transformed /\ CanvasParses(canvasCode) /\ CanvasBindings(canvasCode) # {}) =>
    OccurInOrder(NonCanvasLines(canvasCode, 1), transformed, 1, 1)

\* after const g = canvas.getContext('2d'); the declaration let x = 10; is not
\* in the output, while x = x + 1; is
DeclarationDroppedByCanvasPass ==
  /\ Transformed
  /\ canvasCode = <<"const g = canvas.getContext('2d');", "let x = 10;", "x = x + 1;">>
  /\ CanvasBindings(canvasCode) = {"g"}
  /\ NonCanvasLines(canvasCode, 1) = <<"let x = 10;", "x = x + 1;">>
  /\ transformed = <<"x = x + 1;">>

\* the same property for the programs without a declaration that is no
\* canvas statement
NonCanvasExpressionStatementsPreserved ==
  (\A k \in 1..Len(canvasCode) :
     CanvasParses(canvasCode) /\ StatementOf(canvasCode[k]).type = "VariableDeclaration"
       => IsCanvasStatement(canvasCode, k))
    => NonCanvasStatementsPreserved

=============================================================================
